---- MODULE Spec2Model ----
(***************************************************************************)
(* Rollback simulation engine of the marble game: the frame state and      *)
(* history of GameState (game_state.ts), the parts of Marble that the      *)
(* history stores and reloads (marble.ts), and the sweep-and-prune          *)
(* broadphase.                                                             *)
(*                                                                         *)
(* The rigid-body integration itself is not part of the sources at hand;   *)
(* a marble's body is abstracted to a position on the line 0..OobPos, the  *)
(* last position being the out-of-bounds zone.                             *)
(***************************************************************************)
EXTENDS Integers, Sequences, FiniteSets, TLC

\* ------------------------------------------------------------------ bounds
MaxFrame == 2          \* ticks are taken while frame < MaxFrame
MaxCalls == 2          \* rollBackToFrame calls and server updates per run
MaxObjects == 3        \* objects the world inserts into the broadphase
MaxEdges == 2          \* affection edges recorded per run
MaxOps == 6            \* insert, update and recompute calls per run
MaxCallDepth == 6      \* nested propagate calls the model can hold
MaxRecords == 3        \* recordEntityInteraction calls of a step-by-step run
MaxFrameGap == 11      \* greatest frameGap a reconciliation is run with
MaxIdleFrames == 2     \* postUpdate calls counted after an interpolation ran out
MaxHudFrame == 2       \* displayHelp and displayAlert are called for the frames 0..MaxHudFrame
MaxEndPadTimeout == 2  \* greatest value the end pad gives endPadColliderTimeout
MaxSoloFrame == 2      \* the single marble's ticks are taken while frame < MaxSoloFrame
MaxCollisions == 2     \* collisions the detection reports in one tick
MaxWorldFrame == 2     \* ticks of the world of a trigger are taken while frame < MaxWorldFrame

\* --------------------------------------------------------------- constants
NegInf == -100         \* -Infinity (lastRestartFrame with no restart)
Inf == 100             \* Infinity (sortStarts of a fresh broadphase)
NoFrame == -50         \* null (outOfBoundsFrame of a marble that is in bounds)
GAME_UPDATE_RATE == 1  \* frames per second, scaled down
SpawnPos == 1          \* spawnPosition
OobPos == 2            \* first position outside the level

Marbles == {1, 2}      \* game.entities, in array order 1, 2
LocalMarble == 1       \* game.localPlayer.controlledMarble
HasPlayer(m) == m = 1  \* marble.controllingPlayer; marble 2 has none
Restartable(e) == TRUE \* Marble.restartable
RandomPositions == {0, 1}   \* the values Math.random() can put a marble at
GameTypes == {"singleplayer", "multiplayer"}

\* MarbleControlState, reduced to the fields Marble.update reads
PassiveControlState == [mv |-> 0, using |-> FALSE]
ControlStates == { [mv |-> 1, using |-> FALSE], [mv |-> 0, using |-> TRUE] }

Min(a, b) == IF a < b THEN a ELSE b
Max(a, b) == IF a > b THEN a ELSE b
Last(s) == s[Len(s)]
Front(s) == SubSeq(s, 1, Len(s) - 1)

VARIABLES
  game,          \* the Game with its GameState and its entities
  twin,          \* a second run of the same game (determinism check)
  controlStates, \* the buffered control state of the local player, per frame
  firstRecorded, \* per marble and frame: the state recorded when the frame was first reached
  lastCall,      \* the last operation performed and what it did
  preSave,       \* the game as the last saveStates() call found it
  afterRollBack, \* per frame: the entity states the first rollback to it produced
  calls,         \* number of rollbacks and server updates so far
  recon,         \* the reconciliation under way, if any
  objects,       \* the world's BroadphaseObjects, in insertion order
  bp,            \* the SweepAndPruneBroadphase
  bpLog,         \* the last broadphase operation, whether it brought a new
                 \* object, and whether an insert came late
  fx,            \* the simulator's guard for non-duplicatable events, and what it ran
  flood,         \* a recordEntityInteraction call, taken one propagate step at a time
  interp,        \* a marble's rendered position and its interpolation after a reconciliation
  world,         \* a trigger and the marbles that cross it, with their internal-state histories
  contact,       \* the collisions of one tick and what the marbles made of them
  screen,        \* the HUD's help-message and alert queues under calls for any frame
  solo,          \* one marble with everything Marble.update reads and writes
  options        \* the options screen's key rebinding

\* ------------------------------------------------------------ entity state
\* Marble.getState
GetState(m) == [pos |-> m.pos, oob |-> m.oob]

\* Marble.getInitialState
GetInitialState(m) == [pos |-> SpawnPos, oob |-> NoFrame]

\* Marble.goOutOfBounds
GoOutOfBounds(m, f) ==
  IF m.oob # NoFrame THEN m ELSE [m EXCEPT !.oob = f]

\* loadState() that does not mark the internal state for storing
LoadStateUnmarked(m, s, remote) ==
  LET m1 == [m EXCEPT !.pos = s.pos]
      m2 == IF m1.oob = NoFrame /\ s.oob # NoFrame THEN GoOutOfBounds(m1, s.oob) ELSE m1
  IN [m2 EXCEPT !.oob = s.oob]

\* Marble.loadState
LoadState(m, s, remote) ==
  LET m1 == [m EXCEPT !.pos = s.pos,
                      !.internalStateNeedsStore = IF remote THEN TRUE ELSE @]
      m2 == IF m1.oob = NoFrame /\ s.oob # NoFrame THEN GoOutOfBounds(m1, s.oob) ELSE m1
  IN [m2 EXCEPT !.oob = s.oob]

\* Marble.getInternalState
GetInternalState(m) == [slidingTimeout |-> m.slidingTimeout]

\* Marble.loadInternalState
LoadInternalState(m, s) == [m EXCEPT !.slidingTimeout = s.slidingTimeout]

\* ---------------------------------------------------------------- GameState
\* GameState.lastRestartFrame: scans restartFrames in array order and stops at
\* the first one greater than the current frame
RECURSIVE LastRestartScan(_, _, _, _)
LastRestartScan(rf, i, f, acc) ==
  IF i > Len(rf) THEN acc
  ELSE IF rf[i] > f THEN acc
  ELSE LastRestartScan(rf, i + 1, f, rf[i])

LastRestartFrame(g) == LastRestartScan(g.restartFrames, 1, g.frame, NegInf)

\* GameState.createInitialUpdate; state <<>> is null
CreateInitialUpdate(e) == [updateId |-> -1, entityId |-> e, frame |-> 0, state |-> <<>>]

\* Util.findLast(history, x => x.frame <= upToFrame), <<>> when there is none
RECURSIVE FindLast(_, _, _)
FindLast(h, i, upToFrame) ==
  IF i = 0 THEN <<>>
  ELSE IF h[i].frame <= upToFrame THEN <<h[i]>>
  ELSE FindLast(h, i - 1, upToFrame)

GetLastEntityUpdate(g, e, upToFrame) ==
  LET found == FindLast(g.stateHistory[e], Len(g.stateHistory[e]), upToFrame)
      update == IF found = <<>> THEN CreateInitialUpdate(e) ELSE found[1]
  IN IF Restartable(e) /\ update.frame < LastRestartFrame(g)
       THEN [CreateInitialUpdate(e) EXCEPT !.frame = LastRestartFrame(g)]
       ELSE update

\* GameState.recordEntityInteraction: the players that affect e1 reach e and,
\* when e gained one, whatever e has interacted with
RECURSIVE Propagate(_, _, _)
RECURSIVE PropagateAlong(_, _, _, _)
Propagate(g, e1, e) ==
  IF g.affectedBy[e1] \subseteq g.affectedBy[e] THEN g
  ELSE PropagateAlong([g EXCEPT !.affectedBy[e] = @ \cup g.affectedBy[e1]], e1, e, 1)

PropagateAlong(g, e1, e, i) ==
  IF i > Len(g.affectionGraph) THEN g
  ELSE PropagateAlong(IF g.affectionGraph[i].from = e
                        THEN Propagate(g, e1, g.affectionGraph[i].to) ELSE g,
                      e1, e, i + 1)

RecordEntityInteraction(g, e1, e2) ==
  Propagate([g EXCEPT !.affectionGraph = Append(@,
                         [id |-> g.nextAffectionEdgeId, from |-> e1, to |-> e2,
                          frame |-> g.frame]),
                      !.nextAffectionEdgeId = @ + 1],
            e1, e2)

\* ------------------------------------- recordEntityInteraction, step by step
\* the entities of these runs: two marbles, each controlled by the player of
\* the same number, and a gem
FloodEntities == {1, 2, 3}
FloodPlayers == {1, 2}

\* no interaction recorded yet; `stack` holds the propagate calls under way,
\* innermost last, each with the entity e and its place in the edge loop
\* (0: the player loop has not run yet)
InitFlood ==
  [affectedBy |-> [e \in FloodEntities |-> IF e \in FloodPlayers THEN {e} ELSE {}],
   affectionGraph |-> <<>>, nextAffectionEdgeId |-> 0, frame |-> 0,
   e1 |-> 0, stack |-> <<>>,
   calls |-> 0, recursing |-> 0, additions |-> 0,
   expected |-> [e \in FloodEntities |-> IF e \in FloodPlayers THEN {e} ELSE {}]]

\* propagate that goes on along the edges whether or not a player was added
KeepGoingAlways(f, e) == TRUE

\* propagate: keepGoing after the player loop
KeepGoing(f, e) == f.affectedBy[f.e1] \ f.affectedBy[e] # {}

\* recordEntityInteraction up to the call propagate(e2)
RecordCall(f, e1, e2) ==
  [f EXCEPT !.affectionGraph = Append(@, [id |-> f.nextAffectionEdgeId, from |-> e1,
                                          to |-> e2, frame |-> f.frame]),
            !.nextAffectionEdgeId = @ + 1,
            !.e1 = e1,
            !.stack = <<[e |-> e2, i |-> 0]>>,
            !.calls = 1, !.recursing = 0, !.additions = 0,
            !.expected = RecordEntityInteraction(f, e1, e2).affectedBy]

\* propagate(e): the player loop, and the return when no player was added
PropagatePlayers(f) ==
  LET top == Last(f.stack)
      new == f.affectedBy[f.e1] \ f.affectedBy[top.e]
  IN [f EXCEPT !.affectedBy[top.e] = @ \cup new,
               !.additions = @ + Cardinality(new),
               !.recursing = IF KeepGoing(f, top.e) THEN @ + 1 ELSE @,
               !.stack = IF KeepGoing(f, top.e)
                           THEN [@ EXCEPT ![Len(@)].i = 1] ELSE Front(@)]

\* the edge loop that skips every edge: nothing is passed on
PropagateEdgeSkips(f) ==
  LET top == Last(f.stack)
  IN IF top.i > Len(f.affectionGraph) THEN [f EXCEPT !.stack = Front(@)]
     ELSE [f EXCEPT !.stack[Len(f.stack)].i = @ + 1]

\* propagate(e): one turn of the edge loop, and the return at its end
PropagateEdge(f) ==
  LET top == Last(f.stack)
  IN IF top.i > Len(f.affectionGraph) THEN [f EXCEPT !.stack = Front(@)]
     ELSE IF f.affectionGraph[top.i].from = top.e
       THEN [f EXCEPT !.stack = Append([@ EXCEPT ![Len(@)].i = top.i + 1],
                                       [e |-> f.affectionGraph[top.i].to, i |-> 0]),
                      !.calls = @ + 1]
       ELSE [f EXCEPT !.stack[Len(f.stack)].i = @ + 1]

\* ---------------------------------- interpolation after a reconciliation
\* positions on one axis, in hundredths; the marble is at rest between
\* reconciliations
MinInterpolationFrames == 20
InterpPositions == {0, 100}
\* the frame gaps reconciliations are run with: none, the gap whose double is
\* the lower bound, and the greatest
FrameGaps == {0, MinInterpolationFrames \div 2, MaxFrameGap}

\* 1 - Math.pow(1 - 0.99, 1 / frames) in thousandths, for the windows that occur
InterpolationStrength(frames) ==
  CASE frames = 20 -> 206 [] frames = 22 -> 189 [] frames = 24 -> 175
    [] frames = 26 -> 162 [] frames = 0 -> 1000 [] OTHER -> 4605 \div frames

\* Vector3.lerp with the strength in thousandths
Lerp(a, b, t) == a + ((b - a) * t) \div 1000

\* a marble as its constructor leaves it, with the ghost fields `window` (the
\* frames the running interpolation was started with, 0 for none) and
\* `lerped` (the postUpdate calls that interpolated since then) and `started`
\* (flipped whenever an interpolation is started)
InitInterp ==
  [position |-> 0, reconciliationPosition |-> 0, interpolatedPosition |-> 0,
   interpolationRemaining |-> 0, interpolationStrength |-> 1000,
   frameGap |-> 0, window |-> 0, lerped |-> 0, started |-> FALSE]

\* Marble.beforeReconciliation
BeforeReconciliation(m) == [m EXCEPT !.reconciliationPosition = m.position]

\* afterReconciliation() that takes twice the frame gap without the lower bound
AfterReconciliationUnbounded(m, frameGap) ==
  LET frames == frameGap * 2
  IN IF m.interpolationRemaining > frames THEN m
     ELSE IF m.reconciliationPosition = m.position THEN m
     ELSE [m EXCEPT !.interpolationRemaining = frames,
                    !.interpolationStrength = InterpolationStrength(frames),
                    !.window = frames, !.lerped = 0, !.started = ~@]

\* Marble.afterReconciliation
AfterReconciliation(m, frameGap) ==
  LET frames == Max(frameGap * 2, MinInterpolationFrames)
  IN IF m.interpolationRemaining > frames THEN m
     ELSE IF m.reconciliationPosition = m.position THEN m
     ELSE [m EXCEPT !.interpolationRemaining = frames,
                    !.interpolationStrength = InterpolationStrength(frames),
                    !.window = frames, !.lerped = 0, !.started = ~@]

\* Marble.cancelInterpolation
CancelInterpolation(m) ==
  [m EXCEPT !.interpolationRemaining = 0, !.reconciliationPosition = m.position,
            !.window = 0, !.lerped = 0]

\* Marble.postUpdate outside a reconciliation; the linear velocity is zero
PostUpdate(m) ==
  IF m.interpolationRemaining <= 0
    THEN [m EXCEPT !.interpolationRemaining = @ - 1,
                   !.interpolatedPosition = m.position,
                   !.window = 0, !.lerped = 0]
    ELSE [m EXCEPT !.interpolationRemaining = @ - 1,
                   !.interpolatedPosition = Lerp(@, m.position, m.interpolationStrength),
                   !.lerped = @ + 1]

\* ------------------------------------------------- a trigger and its marbles
WorldMarbles == {1}
WorldTrigger == 2
WorldEntities == WorldMarbles \cup {WorldTrigger}
WorldFrames == -1..MaxWorldFrame

\* the steps of one simulator tick; the hooks are invoked on every body
StepOrderLateDetection ==
  <<"beforeIntegrate", "integrate", "afterIntegrate", "beforeCollisionResponse",
    "detect", "resolve", "afterCollisionResponse">>
StepOrder ==
  <<"beforeIntegrate", "integrate", "afterIntegrate", "detect",
    "beforeCollisionResponse", "resolve", "afterCollisionResponse">>
HookNames == {"beforeIntegrate", "afterIntegrate", "beforeCollisionResponse",
              "afterCollisionResponse"}

\* the handlers an entity's body registers
RegisteredHooks(e) ==
  IF e = WorldTrigger THEN {"beforeIntegrate", "beforeCollisionResponse"} ELSE HookNames

\* Sets and arrays are objects of a heap: `heap` maps a reference to the
\* content of the object, and a new object takes the least free reference
NewRef(heap) ==
  CHOOSE r \in 0..Cardinality(DOMAIN heap) :
    r \notin DOMAIN heap /\ \A q \in 0..(r - 1) : q \in DOMAIN heap
Alloc(heap, content) ==
  [r \in DOMAIN heap \cup {NewRef(heap)} |-> IF r \in DOMAIN heap THEN heap[r] ELSE content]

\* the world after construction and reset(); `flag` is the value an Entity's
\* internalStateNeedsStore starts with. Ghost fields: `hooks` (the steps of
\* the last tick), `fired` (the enter and leave events of the frames up to
\* `frame`), `first` (those of the first run of each frame), `firstInternal`
\* (currentlyColliding when a frame was first reached), `overlap` (the marbles
\* inside the trigger at each frame simulated so far), `reached`, `op`, and
\* `rolledBack` (a rollback has been made), and `recorded` in a history entry
\* (the content of its state when recorded)
InitWorld(flag) ==
  [frame |-> -1, present |-> WorldEntities,
   heap |-> [r \in 0..Cardinality(WorldMarbles) |-> {}],
   currentlyColliding |-> 0,
   collisions |-> {},
   marbleCollisions |-> [m \in WorldMarbles |-> m],
   needsStore |-> [e \in WorldEntities |-> flag],
   internalStateHistory |-> [e \in WorldEntities |-> <<>>],
   hooks |-> <<>>, fired |-> {}, first |-> {},
   firstInternal |-> [f \in WorldFrames |-> {}],
   overlap |-> [f \in WorldFrames |-> {}],
   reached |-> -1, op |-> "init", raised |-> FALSE, rolledBack |-> FALSE]

\* Trigger: body.onBeforeIntegrate
TriggerBeforeIntegrate(w) ==
  LET left == w.heap[w.currentlyColliding] \ w.collisions
  IN IF left = {} THEN w
     ELSE [w EXCEPT !.heap[w.currentlyColliding] = @ \ left,
                    !.needsStore[WorldTrigger] = TRUE,
                    !.fired = @ \cup {[frame |-> w.frame, kind |-> "leave", marble |-> m] :
                                        m \in left}]

\* a handler that calls onMarbleEnter without asking currentlyColliding
TriggerBeforeCollisionResponseAlways(w) ==
  IF w.collisions = {} THEN w
  ELSE [w EXCEPT !.heap[w.currentlyColliding] = @ \cup w.collisions,
                 !.needsStore[WorldTrigger] = TRUE,
                 !.fired = @ \cup {[frame |-> w.frame, kind |-> k, marble |-> m] :
                                     m \in w.collisions, k \in {"enter", "inside"}}]

\* Trigger: body.onBeforeCollisionResponse
TriggerBeforeCollisionResponse(w) ==
  LET entered == w.collisions \ w.heap[w.currentlyColliding]
  IN IF w.collisions = {} THEN w
     ELSE [w EXCEPT !.heap[w.currentlyColliding] = @ \cup w.collisions,
                    !.needsStore[WorldTrigger] = TRUE,
                    !.fired = @ \cup {[frame |-> w.frame, kind |-> "enter", marble |-> m] :
                                        m \in entered}
                                 \cup {[frame |-> w.frame, kind |-> "inside", marble |-> m] :
                                        m \in w.collisions}]

\* collision detection: the bodies' collisions are those of the marbles in
\* `over`, the marbles that overlap the trigger in this frame
DetectCollisions(w, over) ==
  [w EXCEPT !.collisions = over,
            !.heap = [r \in DOMAIN @ |->
                       IF \E m \in w.present \ {WorldTrigger} : w.marbleCollisions[m] = r
                         THEN IF \E m \in over : w.marbleCollisions[m] = r
                                THEN {WorldTrigger} ELSE {}
                         ELSE @[r]]]

\* the simulator invokes a hook of a body: the handler the entity registered,
\* if any; a marble's handlers change nothing of this world
InvokeHook(w, hook, b) ==
  LET noted == [w EXCEPT !.hooks = Append(@, [step |-> hook, body |-> b])]
  IN IF b \notin w.present THEN w
     ELSE IF hook \notin RegisteredHooks(b) \/ b # WorldTrigger THEN noted
     ELSE IF hook = "beforeIntegrate" THEN TriggerBeforeIntegrate(noted)
     ELSE TriggerBeforeCollisionResponse(noted)

\* one step of the simulator's tick, noted in `hooks`; a step of the
\* simulator itself is noted with body 0
RunStep(w, step, over) ==
  IF step \in HookNames
    THEN InvokeHook(InvokeHook(w, step, 1), step, 2)
    ELSE LET noted == [w EXCEPT !.hooks = Append(@, [step |-> step, body |-> 0])]
         IN IF step = "detect" THEN DetectCollisions(noted, over) ELSE noted

RECURSIVE RunSteps(_, _, _, _)
RunSteps(w, order, i, over) ==
  IF i > Len(order) THEN w ELSE RunSteps(RunStep(w, order[i], over), order, i + 1, over)

\* the simulator's tick
SimulatorStep(w, over) == RunSteps([w EXCEPT !.hooks = <<>>], StepOrder, 1, over)

\* getInternalState() that hands out the live set
TriggerGetInternalStateLive(w) ==
  [new |-> FALSE, ref |-> w.currentlyColliding, content |-> w.heap[w.currentlyColliding]]

\* Trigger.getInternalState: a new Set with the bodies of currentlyColliding
TriggerGetInternalState(w) ==
  [new |-> TRUE, ref |-> NewRef(w.heap), content |-> w.heap[w.currentlyColliding]]

\* Marble.getInternalState: collisions is a slice() of the body's
MarbleGetInternalState(w, m) ==
  [new |-> TRUE, ref |-> NewRef(w.heap), content |-> w.heap[w.marbleCollisions[m]]]

WorldGetInternalState(w, e) ==
  IF e = WorldTrigger THEN TriggerGetInternalState(w) ELSE MarbleGetInternalState(w, e)

\* Trigger.loadInternalState: currentlyColliding becomes a new Set
TriggerLoadInternalState(w, state) ==
  [w EXCEPT !.currentlyColliding = NewRef(w.heap), !.heap = Alloc(@, w.heap[state])]

\* RigidBody.updateCollisions: the body's own array takes over the entries
\* of the array it is given
UpdateCollisions(heap, own, given) == [heap EXCEPT ![own] = heap[given]]

\* Marble.loadInternalState
MarbleLoadInternalState(w, m, state) ==
  [w EXCEPT !.heap = UpdateCollisions(@, w.marbleCollisions[m], state)]

WorldLoadInternalState(w, e, state) ==
  IF e = WorldTrigger THEN TriggerLoadInternalState(w, state)
  ELSE MarbleLoadInternalState(w, e, state)

\* saveStates() for one entity
WorldSaveEntity(w, e) ==
  IF e \notin w.present \/ ~w.needsStore[e] THEN w
  ELSE LET arr == w.internalStateHistory[e]
           arr1 == IF Len(arr) > 0 /\ Last(arr).frame = w.frame THEN Front(arr) ELSE arr
           s == WorldGetInternalState(w, e)
       IN [w EXCEPT !.heap = IF s.new THEN Alloc(@, s.content) ELSE @,
                    !.internalStateHistory[e] =
                       Append(arr1, [frame |-> IF Len(arr1) = 0 THEN -1 ELSE w.frame,
                                     state |-> s.ref, recorded |-> s.content]),
                    !.needsStore[e] = FALSE]

\* GameState.saveStates, the entities in the order of their ids
WorldSaveStates(w) == WorldSaveEntity(WorldSaveEntity(w, 1), 2)

\* the objects no reference leads to are dropped
Collect(w) ==
  LET used == {w.currentlyColliding} \cup {w.marbleCollisions[m] : m \in WorldMarbles}
                \cup UNION {{w.internalStateHistory[e][i].state :
                                i \in 1..Len(w.internalStateHistory[e])} :
                              e \in WorldEntities}
  IN [w EXCEPT !.heap = [r \in DOMAIN @ \cap used |-> @[r]]]

\* ------------------------------------------------- the collisions of a tick
ContactMarbles == {1, 2, 3}

\* a marble's main shape, its small aux shape, and the shape of a static body
MainShape(m) == [body |-> m, kind |-> "main"]
AuxShape(m) == [body |-> m, kind |-> "aux"]
StaticShape == [body |-> 0, kind |-> "static"]

\* the collisions the detection may report: two marbles' main shapes in
\* either order, a main shape with a static shape, an aux shape with a static
\* one (a trigger). `impact` is minus the normal's dot product with the
\* relative velocity, `up` the normal's dot product with the up vector
Collisions ==
  { [s1 |-> x[1], s2 |-> x[2], impact |-> i, up |-> u] :
      x \in ({<<MainShape(m), MainShape(n)>> : m, n \in ContactMarbles}
               \cup {<<MainShape(m), StaticShape>> : m \in ContactMarbles}
               \cup {<<AuxShape(m), StaticShape>> : m \in ContactMarbles}),
      i \in {1, 2}, u \in {0, 1} } \ { c \in [s1 : {MainShape(m) : m \in ContactMarbles},
                                               s2 : {MainShape(m) : m \in ContactMarbles},
                                               impact : {1, 2}, up : {0, 1}] : c.s1 = c.s2 }

\* the score functions findBestCollision is called with: the impact of the
\* collision, which is the same seen from either body, and the normal's
\* part along the up vector, the normal being negated for the second shape
Score(which, c, m) ==
  IF which = "impact" THEN c.impact
  ELSE IF c.s1 = MainShape(m) THEN c.up ELSE 0 - c.up
ScoreNames == {"impact", "up"}

\* the loop of a findBestCollision that lets a later collision of equal
\* score replace the best one
RECURSIVE FindBestLoopLast(_, _, _, _, _, _)
FindBestLoopLast(collisions, m, which, i, bestCollision, bestCollisionValue) ==
  IF i > Len(collisions) THEN bestCollision
  ELSE LET collision == collisions[i]
           value == Score(which, collision, m) IN
       IF collision.s1 # MainShape(m) /\ collision.s2 # MainShape(m)
         THEN FindBestLoopLast(collisions, m, which, i + 1, bestCollision, bestCollisionValue)
       ELSE IF value >= bestCollisionValue
         THEN FindBestLoopLast(collisions, m, which, i + 1, i, value)
       ELSE FindBestLoopLast(collisions, m, which, i + 1, bestCollision, bestCollisionValue)

\* Marble.findBestCollision, the loop over body.collisions: the place of the
\* best collision so far, 0 for none
RECURSIVE FindBestLoop(_, _, _, _, _, _)
FindBestLoop(collisions, m, which, i, bestCollision, bestCollisionValue) ==
  IF i > Len(collisions) THEN bestCollision
  ELSE LET collision == collisions[i]
           value == Score(which, collision, m) IN
       IF collision.s1 # MainShape(m) /\ collision.s2 # MainShape(m)
         THEN FindBestLoop(collisions, m, which, i + 1, bestCollision, bestCollisionValue)
       ELSE IF value > bestCollisionValue
         THEN FindBestLoop(collisions, m, which, i + 1, i, value)
       ELSE FindBestLoop(collisions, m, which, i + 1, bestCollision, bestCollisionValue)

\* Marble.findBestCollision: null, or the collision with the shape on the
\* other side of it
NoCollision == [collision |-> 0, contactShape |-> StaticShape]
FindBestCollision(collisions, m, which) ==
  LET bestCollision == FindBestLoop(collisions, m, which, 1, 0, NegInf) IN
  IF bestCollision = 0 THEN NoCollision
  ELSE [collision |-> bestCollision,
        contactShape |-> IF collisions[bestCollision].s1 # MainShape(m)
                           THEN collisions[bestCollision].s1
                           ELSE collisions[bestCollision].s2]

\* Marble.onBeforeCollisionResponse: the collisions marble m hands to
\* onMarbleMarbleCollision, in order
OnBeforeCollisionResponse(collisions, m) ==
  LET mostPowerfulCollision == FindBestCollision(collisions, m, "impact")
      OtherShape(c) == IF c.s1 # MainShape(m) THEN c.s1 ELSE c.s2
      Handed(i) == /\ MainShape(m) \in {collisions[i].s1, collisions[i].s2}
                   /\ OtherShape(collisions[i]).kind \in {"main", "aux"}
                   /\ OtherShape(collisions[i]).body \in ContactMarbles
  IN IF mostPowerfulCollision = NoCollision
          \/ collisions[mostPowerfulCollision.collision].s1 # MainShape(m)
       THEN {}
       ELSE {i \in 1..Len(collisions) : Handed(i)}

\* no tick yet
InitContact ==
  [collisions |-> <<>>,
   best |-> [m \in ContactMarbles |-> [which \in ScoreNames |-> NoCollision]],
   processed |-> [m \in ContactMarbles |-> {}],
   responded |-> FALSE]

\* ---------------------------------------------------------------------- Hud
\* Util.insertSorted by frame: the new entry goes behind the entries that are
\* not later than it
InsertSorted(arr, x) ==
  LET index == Cardinality({i \in 1..Len(arr) : arr[i].frame <= x.frame})
  IN [arr |-> SubSeq(arr, 1, index) \o <<x>> \o SubSeq(arr, index + 1, Len(arr)),
      index |-> index]

\* the loop of displayHelp and displayAlert that removes the entries of the
\* same frame in front of the new one; index counts from 0
RECURSIVE SpliceSameFrame(_, _, _)
SpliceSameFrame(arr, index, frame) ==
  IF index - 1 >= 0 /\ arr[index].frame = frame
    THEN SpliceSameFrame(SubSeq(arr, 1, index - 1) \o SubSeq(arr, index + 1, Len(arr)),
                         index - 1, frame)
    ELSE arr

\* Hud.displayHelp
DisplayHelp(hud, getMessage, frame) ==
  LET ins == InsertSorted(hud.helpMessages, [frame |-> frame, getMessage |-> getMessage])
  IN [hud EXCEPT !.helpMessages = SpliceSameFrame(ins.arr, ins.index, frame)]

\* displayAlert that leaves the earlier entries of the frame in the queue
DisplayAlertKeepsEarlier(hud, getMessage, frame) ==
  [hud EXCEPT !.alerts = InsertSorted(@, [frame |-> frame, getMessage |-> getMessage]).arr]

\* Hud.displayAlert
DisplayAlert(hud, getMessage, frame) ==
  LET ins == InsertSorted(hud.alerts, [frame |-> frame, getMessage |-> getMessage])
  IN [hud EXCEPT !.alerts = SpliceSameFrame(ins.arr, ins.index, frame)]

\* the messages a call may bring, and the HUD with empty queues; the ghost
\* field `latest` holds per queue and frame the message of the latest call
\* that a rollback has not taken back, 0 for none
HudMessages == {1, 2}
HudFrames == 0..MaxHudFrame
InitScreen ==
  [hud |-> [helpMessages |-> <<>>, alerts |-> <<>>],
   latest |-> [q \in {"helpMessages", "alerts"} |-> [f \in HudFrames |-> 0]]]

\* ------------------------------------------- one marble, the whole update()
\* the power-ups whose activity update() looks at
PowerUps == {"helicopter", "superBounce", "shockAbsorber", "megaMarble"}
\* the amount of a full blast meter; a tick recharges one unit
BlastFull == 2
\* TeleportTrigger.delay in frames
TeleportDelay == 2

\* the marble after the level was started. Ghost fields: op is the operation
\* that led to the state, reconciling and using are the inputs of the latest
\* tick, respawned is what the latest update() did about being out of bounds
InitSolo ==
  [frame |-> 0, addedToGame |-> TRUE, restartFrames |-> <<>>,
   outOfBoundsFrame |-> NoFrame, inFinishState |-> FALSE, finishedLegal |-> FALSE,
   currentCheckpoint |-> FALSE, slidingTimeout |-> 0,
   active |-> {},
   helicopterSound |-> FALSE, shockAbsorberSound |-> FALSE, superBounceSound |-> FALSE,
   rolling |-> "rollingSound",
   finishCameraAnimationStart |-> NoFrame,
   interpolationRemaining |-> 0, interpolatedPosition |-> "body",
   teleportStates |-> <<>>, blastAmount |-> 0, endPadColliderTimeout |-> 0,
   stateNeedsStore |-> FALSE,
   op |-> "start", reconciling |-> FALSE, using |-> FALSE, respawned |-> "none"]

\* Marble.goOutOfBounds
GoOutOfBoundsAt(m, frame) ==
  IF m.outOfBoundsFrame # NoFrame \/ m.inFinishState THEN m
  ELSE [m EXCEPT !.outOfBoundsFrame = frame]

\* Marble.enableFinishState
EnableFinishState(m) == [m EXCEPT !.inFinishState = TRUE]

\* Marble.restart of the controlled marble: the initial state is loaded, the
\* finish camera is reset and the interpolation cancelled
RestartMarble(m) ==
  [m EXCEPT !.outOfBoundsFrame = NoFrame, !.inFinishState = FALSE,
            !.teleportStates = <<>>, !.blastAmount = 0, !.active = {},
            !.addedToGame = TRUE, !.slidingTimeout = 0,
            !.finishCameraAnimationStart = NoFrame,
            !.interpolationRemaining = 0]

\* CheckpointState.load: the marble is put back to the checkpoint
CheckpointLoad(m) == [m EXCEPT !.outOfBoundsFrame = NoFrame]

\* Marble.respawn(false)
RespawnMarble(m) ==
  IF m.currentCheckpoint THEN CheckpointLoad(m) ELSE RestartMarble(m)

\* the condition of update() with > in place of >=
UpdateRespawnDueLate(m, using) ==
  /\ m.outOfBoundsFrame # NoFrame
  /\ (using \/ m.frame - m.outOfBoundsFrame > 2 * GAME_UPDATE_RATE)
  /\ ~m.finishedLegal

\* Marble.update, the condition under which an out-of-bounds marble is
\* respawned
UpdateRespawnDue(m, using) ==
  /\ m.outOfBoundsFrame # NoFrame
  /\ (using \/ m.frame - m.outOfBoundsFrame >= 2 * GAME_UPDATE_RATE)
  /\ ~m.finishedLegal

\* Marble.update, the respawn of an out-of-bounds marble; the marble is the
\* local player's and the mode is the normal one
UpdateRespawn(m, type, using) ==
  IF UpdateRespawnDue(m, using)
    THEN IF type = "singleplayer" /\ ~m.currentCheckpoint
           THEN [m EXCEPT !.restartFrames = Append(@, m.frame + 1),
                          !.respawned = "restart"]
           ELSE [RespawnMarble(m) EXCEPT !.respawned = "respawn"]
    ELSE m

\* Marble.update, the force field, the helicopter and the rolling sounds
UpdateSounds(m, reconciling) ==
  LET m1 == IF "shockAbsorber" \in m.active
              THEN IF ~m.shockAbsorberSound /\ ~reconciling
                     THEN [m EXCEPT !.shockAbsorberSound = TRUE] ELSE m
            ELSE IF "superBounce" \in m.active
              THEN IF ~reconciling THEN [m EXCEPT !.shockAbsorberSound = FALSE] ELSE m
            ELSE IF ~reconciling
              THEN [m EXCEPT !.shockAbsorberSound = FALSE, !.superBounceSound = FALSE]
              ELSE m
      m2 == IF "superBounce" \in m1.active /\ ~m1.superBounceSound /\ ~reconciling
              THEN [m1 EXCEPT !.superBounceSound = TRUE] ELSE m1
      m3 == IF "helicopter" \in m2.active
              THEN IF ~m2.helicopterSound /\ ~reconciling
                     THEN [m2 EXCEPT !.helicopterSound = TRUE] ELSE m2
              ELSE IF ~reconciling THEN [m2 EXCEPT !.helicopterSound = FALSE] ELSE m2
  IN IF reconciling THEN m3
     ELSE [m3 EXCEPT !.rolling = IF "megaMarble" \in m3.active
                                   THEN "rollingMegaMarbleSound" ELSE "rollingSound"]

\* TeleportTrigger.executeTeleport, as far as the teleport state goes
ExecuteTeleport(t) == [t EXCEPT !.entryFrame = NoFrame, !.exitFrame = NoFrame]

\* Marble.update, the loop over the teleport states from the i-th on; the
\* result says whether the loop ended with the return of the cancellation
RECURSIVE UpdateTeleports(_, _)
UpdateTeleports(m, i) ==
  IF i > Len(m.teleportStates) THEN [m |-> m, returned |-> FALSE]
  ELSE LET t == m.teleportStates[i]
       IN IF t.entryFrame = NoFrame THEN UpdateTeleports(m, i + 1)
          ELSE IF m.frame - t.entryFrame >= TeleportDelay
            THEN UpdateTeleports([m EXCEPT !.teleportStates[i] = ExecuteTeleport(t)], i + 1)
          ELSE IF t.exitFrame # NoFrame /\ (m.frame - t.exitFrame) * 20 > GAME_UPDATE_RATE
            THEN [m |-> [m EXCEPT !.teleportStates[i] =
                                    [t EXCEPT !.entryFrame = NoFrame, !.exitFrame = NoFrame]],
                  returned |-> TRUE]
          ELSE UpdateTeleports(m, i + 1)

\* Util.filterInPlace with the predicate of update()
RECURSIVE FilterTeleportStates(_)
FilterTeleportStates(ts) ==
  IF ts = <<>> THEN <<>>
  ELSE IF Head(ts).entryFrame # NoFrame \/ Head(ts).exitFrame # NoFrame
    THEN <<Head(ts)>> \o FilterTeleportStates(Tail(ts))
  ELSE FilterTeleportStates(Tail(ts))

\* Marble.update, from the blast meter to the end
UpdateTail(m, reconciling) ==
  LET m1 == IF m.blastAmount < BlastFull
              THEN [m EXCEPT !.blastAmount = Min(@ + 1, BlastFull)] ELSE m
      m2 == IF m1.endPadColliderTimeout > 0
              THEN [m1 EXCEPT !.endPadColliderTimeout = @ - 1] ELSE m1
      m3 == IF ~reconciling /\ m2.inFinishState /\ m2.finishCameraAnimationStart = NoFrame
              THEN [m2 EXCEPT !.finishCameraAnimationStart = m2.frame] ELSE m2
  IN [m3 EXCEPT !.teleportStates = FilterTeleportStates(@)]

\* Marble.update
UpdateMarble(m, type, using, reconciling) ==
  IF ~m.addedToGame THEN m
  ELSE
    LET m1 == UpdateRespawn([m EXCEPT !.stateNeedsStore = TRUE], type, using)
        m2 == [UpdateSounds(m1, reconciling) EXCEPT !.slidingTimeout = @ - 1]
        loop == UpdateTeleports(m2, 1)
    IN IF loop.returned THEN loop.m ELSE UpdateTail(loop.m, reconciling)

\* Marble.postUpdate
PostUpdateIn(m, reconciling) ==
  IF reconciling THEN m
  ELSE [m EXCEPT !.interpolationRemaining = @ - 1,
                 !.interpolatedPosition = IF m.interpolationRemaining <= 0
                                            THEN "body" ELSE "lerped"]

\* ------------------------------------------------------ the options screen
\* some of the game buttons, the codes a keydown event may carry (a key
\* without a physical location has the empty code) and the names of the
\* mouse buttons; null is written "null"
GameButtons == {"up", "use", "jump"}
KeyCodes == {"", "KeyW", "Space", "Escape"}
MouseButtons == 0..3
Null == "null"

\* ["LMB", "MMB", "RMB"][e.button]
ButtonName(button) ==
  CASE button = 0 -> "LMB" [] button = 1 -> "MMB" [] button = 2 -> "RMB" [] OTHER -> Null

\* a JavaScript value used as a condition: null and the empty string are falsy
Truthy(v) == v # Null /\ v # ""

\* the screen with a mapping without duplicates and no dialog open; stray is
\* the property the Yes handler creates when currentlyRebinding is null,
\* "absent" until then. Ghost fields: op and code are the latest event
InitOptions ==
  [gameButtonMapping |-> [b \in GameButtons |->
                            CASE b = "up" -> "KeyW" [] b = "use" -> "LMB" [] OTHER -> "Space"],
   stray |-> "absent",
   currentlyRebinding |-> Null, rebindValue |-> Null,
   rebindDialogHidden |-> TRUE, rebindConfirmHidden |-> TRUE,
   op |-> "init", code |-> Null]

\* OptionsScreen.changeKeybinding
ChangeKeybinding(o, button) ==
  [o EXCEPT !.rebindDialogHidden = FALSE, !.currentlyRebinding = button]

\* OptionsScreen.setKeybinding
SetKeybinding(o, button, value) ==
  IF \E typedKey \in GameButtons :
       o.gameButtonMapping[typedKey] = value /\ typedKey # button
    THEN [o EXCEPT !.rebindDialogHidden = TRUE, !.rebindConfirmHidden = FALSE,
                   !.rebindValue = value]
    ELSE [o EXCEPT !.gameButtonMapping[button] = value,
                   !.currentlyRebinding = Null, !.rebindDialogHidden = TRUE]

\* the keydown listener
OnKeyDown(o, code) ==
  IF ~Truthy(o.currentlyRebinding) \/ Truthy(o.rebindValue) THEN o
  ELSE IF code = "Escape"
    THEN [o EXCEPT !.currentlyRebinding = Null, !.rebindDialogHidden = TRUE]
  ELSE SetKeybinding(o, o.currentlyRebinding, code)

\* the mousedown listener
OnMouseDown(o, button) ==
  IF ~Truthy(o.currentlyRebinding) \/ Truthy(o.rebindValue) THEN o
  ELSE IF ButtonName(button) = Null THEN o
  ELSE SetKeybinding(o, o.currentlyRebinding, ButtonName(button))

\* the handler of the Yes button of the conflict dialog
OnConfirmYes(o) ==
  LET cleared == [b \in GameButtons |->
                    IF o.gameButtonMapping[b] = o.rebindValue THEN "" ELSE o.gameButtonMapping[b]]
      o1 == IF o.currentlyRebinding = Null
              THEN [o EXCEPT !.gameButtonMapping = cleared, !.stray = o.rebindValue]
              ELSE [o EXCEPT !.gameButtonMapping =
                               [cleared EXCEPT ![o.currentlyRebinding] = o.rebindValue]]
  IN [o1 EXCEPT !.currentlyRebinding = Null, !.rebindValue = Null,
                !.rebindConfirmHidden = TRUE]

\* the handler of the No button of the conflict dialog
OnConfirmNo(o) ==
  [o EXCEPT !.currentlyRebinding = Null, !.rebindValue = Null, !.rebindConfirmHidden = TRUE]

\* saveStates that appends without replacing the entry of the current frame
SaveEntityAppends(g, e) ==
  LET m == g.marbles[e]
      g1 == IF m.stateNeedsStore
              THEN [g EXCEPT
                      !.stateHistory[e] = Append(@,
                         [updateId |-> g.nextUpdateId, entityId |-> e,
                          frame |-> g.frame, state |-> <<GetState(m)>>]),
                      !.nextUpdateId = @ + 1,
                      !.marbles[e].stateNeedsStore = FALSE]
              ELSE g
      iarr == g1.internalStateHistory[e]
      iarr1 == IF Len(iarr) > 0 /\ Last(iarr).frame = g1.frame THEN Front(iarr) ELSE iarr
  IN IF m.internalStateNeedsStore
       THEN [g1 EXCEPT
               !.internalStateHistory[e] = Append(iarr1,
                  [frame |-> IF Len(iarr1) = 0 THEN -1 ELSE g1.frame,
                   state |-> GetInternalState(m)]),
               !.marbles[e].internalStateNeedsStore = FALSE]
       ELSE g1

\* saveStates that tags every internal snapshot with the current frame
SaveEntityTagsFrame(g, e) ==
  LET m == g.marbles[e]
      arr == g.stateHistory[e]
      arr1 == IF Len(arr) > 0 /\ Last(arr).frame = g.frame THEN Front(arr) ELSE arr
      g1 == IF m.stateNeedsStore
              THEN [g EXCEPT
                      !.stateHistory[e] = Append(arr1,
                         [updateId |-> g.nextUpdateId, entityId |-> e,
                          frame |-> g.frame, state |-> <<GetState(m)>>]),
                      !.nextUpdateId = @ + 1,
                      !.marbles[e].stateNeedsStore = FALSE]
              ELSE g
      iarr == g1.internalStateHistory[e]
      iarr1 == IF Len(iarr) > 0 /\ Last(iarr).frame = g1.frame THEN Front(iarr) ELSE iarr
  IN IF m.internalStateNeedsStore
       THEN [g1 EXCEPT
               !.internalStateHistory[e] = Append(iarr1,
                  [frame |-> g1.frame,
                   state |-> GetInternalState(m)]),
               !.marbles[e].internalStateNeedsStore = FALSE]
       ELSE g1

\* one entity's part of the loop of GameState.saveStates
SaveEntity(g, e) ==
  LET m == g.marbles[e]
      arr == g.stateHistory[e]
      arr1 == IF Len(arr) > 0 /\ Last(arr).frame = g.frame THEN Front(arr) ELSE arr
      g1 == IF m.stateNeedsStore
              THEN [g EXCEPT
                      !.stateHistory[e] = Append(arr1,
                         [updateId |-> g.nextUpdateId, entityId |-> e,
                          frame |-> g.frame, state |-> <<GetState(m)>>]),
                      !.nextUpdateId = @ + 1,
                      !.marbles[e].stateNeedsStore = FALSE]
              ELSE g
      iarr == g1.internalStateHistory[e]
      iarr1 == IF Len(iarr) > 0 /\ Last(iarr).frame = g1.frame THEN Front(iarr) ELSE iarr
  IN IF m.internalStateNeedsStore
       THEN [g1 EXCEPT
               !.internalStateHistory[e] = Append(iarr1,
                  [frame |-> IF Len(iarr1) = 0 THEN -1 ELSE g1.frame,
                   state |-> GetInternalState(m)]),
               !.marbles[e].internalStateNeedsStore = FALSE]
       ELSE g1

\* saveStates whose loop misses the last entity
SaveStatesMissesLast(g) == SaveEntity(g, 1)

\* GameState.saveStates
SaveStates(g) == SaveEntity(SaveEntity(g, 1), 2)

\* the frames > f at the end of a history are popped
RECURSIVE PopAbove(_, _)
PopAbove(h, f) ==
  IF Len(h) > 0 /\ Last(h).frame > f THEN PopAbove(Front(h), f) ELSE h

\* rollBackToFrame, the two loops over the HUD's queues, which both take
\* G.menu.hud.alerts
RollBackHud(hud, target) == [hud EXCEPT !.alerts = PopAbove(PopAbove(@, target), target)]

\* rollBackEntityToFrame that keeps the entry of the frame after f
RollBackEntityToFrameKeepsNext(g, e, f) ==
  LET history == PopAbove(g.stateHistory[e], f + 1)
      popped == Len(history) < Len(g.stateHistory[e])
      g1 == [g EXCEPT !.stateHistory[e] = history]
      update == GetLastEntityUpdate(g1, e, f)
      state == IF update.state = <<>> THEN GetInitialState(g1.marbles[e]) ELSE update.state[1]
  IN IF ~popped THEN g1
     ELSE [g1 EXCEPT !.marbles[e] = LoadState(@, state, FALSE),
                     !.loaded[e] = <<[state |-> state, frame |-> update.frame, remote |-> FALSE]>>]

\* rollBackEntityToFrame that reloads the initial state whatever the update holds
RollBackEntityToFrameInitial(g, e, f) ==
  LET history == PopAbove(g.stateHistory[e], f)
      popped == Len(history) < Len(g.stateHistory[e])
      g1 == [g EXCEPT !.stateHistory[e] = history]
      update == GetLastEntityUpdate(g1, e, f)
      state == GetInitialState(g1.marbles[e])
  IN IF ~popped THEN g1
     ELSE [g1 EXCEPT !.marbles[e] = LoadState(@, state, FALSE),
                     !.loaded[e] = <<[state |-> state, frame |-> update.frame, remote |-> FALSE]>>]

\* GameState.rollBackEntityToFrame
RollBackEntityToFrame(g, e, f) ==
  LET history == PopAbove(g.stateHistory[e], f)
      popped == Len(history) < Len(g.stateHistory[e])
      g1 == [g EXCEPT !.stateHistory[e] = history]
      update == GetLastEntityUpdate(g1, e, f)
      state == IF update.state = <<>> THEN GetInitialState(g1.marbles[e]) ELSE update.state[1]
  IN IF ~popped THEN g1
     ELSE [g1 EXCEPT !.marbles[e] = LoadState(@, state, FALSE),
                     !.loaded[e] = <<[state |-> state, frame |-> update.frame, remote |-> FALSE]>>]

\* the internal-state loop of GameState.rollBackToFrame, for one entity
RollBackInternal(g, e, target) ==
  LET history == PopAbove(g.internalStateHistory[e], target)
      popped == Len(history) < Len(g.internalStateHistory[e])
  IN IF ~popped THEN g
     ELSE [g EXCEPT !.internalStateHistory[e] = history,
                    !.marbles[e] = LoadInternalState(@, Last(history).state)]

\* rollBackToFrame that leaves the affection graph as it is
RollBackBodyKeepsEdges(g, target) ==
  LET g0 == [g EXCEPT !.frame = target]
      helpMessages == PopAbove(g0.hud.alerts, target)
      alerts == PopAbove(helpMessages, target)
      g1 == [g0 EXCEPT !.hud = [@ EXCEPT !.alerts = alerts]]
      g2 == RollBackInternal(RollBackInternal(g1, 1, target), 2, target)
  IN RollBackEntityToFrame(RollBackEntityToFrame(g2, 1, target), 2, target)

\* GameState.rollBackToFrame up to its final saveStates()
RollBackBody(g, target) ==
  LET g0 == [g EXCEPT !.frame = target,
                      !.affectionGraph = PopAbove(@, target)]
      helpMessages == PopAbove(g0.hud.alerts, target)
      alerts == PopAbove(helpMessages, target)
      g1 == [g0 EXCEPT !.hud = [@ EXCEPT !.alerts = alerts]]
      g2 == RollBackInternal(RollBackInternal(g1, 1, target), 2, target)
  IN RollBackEntityToFrame(RollBackEntityToFrame(g2, 1, target), 2, target)

\* rollBackToFrame without its early return
RollBackToFrameAlways(g, target) == SaveStates(RollBackBody(g, target))

\* GameState.rollBackToFrame
RollBackToFrame(g, target) ==
  IF target = g.frame THEN g ELSE SaveStates(RollBackBody(g, target))

\* ------------------------------------------------------------------- Marble
\* Entity.restart: the entity is put back to its initial state
EntityRestart(m) == LoadState(m, GetInitialState(m), FALSE)

\* Marble.restart; rnd is what Math.random() yields. The level has a start
\* pad, which selectSpawnElement returns, so that the spawn position is fixed.
MarbleRestart(m, e, rnd) ==
  LET m1 == EntityRestart(m)
      m2 == IF ~HasPlayer(e) THEN [m1 EXCEPT !.pos = rnd] ELSE m1
  IN [m2 EXCEPT !.addedToGame = TRUE, !.slidingTimeout = 0]

\* Marble.respawn(false), without a checkpoint
Respawn(m, e, rnd) == MarbleRestart(m, e, rnd)

\* game.entities: a singleplayer game has the local player's marble only
Entities(g) == IF g.type = "singleplayer" THEN {LocalMarble} ELSE Marbles

\* Marble.restart ends with displayHelp of the start help text, stamped with
\* the current frame; the message is the restarting marble's
RestartHelp(g, e) == [g EXCEPT !.hud = DisplayHelp(@, e, g.frame)]

\* Marble.restart within the game
RestartInGame(g, e, rnd) ==
  RestartHelp([g EXCEPT !.marbles[e] = MarbleRestart(@, e, rnd)], e)

\* GameState.restart
Restart(g, rnd) ==
  LET r(h, e) == IF e \in Entities(h) /\ Restartable(e) THEN RestartInGame(h, e, rnd) ELSE h
  IN r(r(g, 1), 2)

\* the control state Marble.update reads
CurrentControlState(e, cs) == IF HasPlayer(e) THEN cs ELSE PassiveControlState

\* the condition under which Marble.update respawns an out-of-bounds marble
RespawnDue(g, e, cs) ==
  /\ g.marbles[e].oob # NoFrame
  /\ (CurrentControlState(e, cs).using \/ g.frame - g.marbles[e].oob >= 2 * GAME_UPDATE_RATE)

\* Marble.update
MarbleUpdate(g, e, cs, rnd) ==
  IF ~g.marbles[e].addedToGame THEN g
  ELSE
    LET g1 == [g EXCEPT !.marbles[e].stateNeedsStore = TRUE,
                        !.marbles[e].internalStateNeedsStore = TRUE]
        g2 == IF RespawnDue(g1, e, cs)
                THEN IF g1.type = "singleplayer" /\ e = LocalMarble
                       THEN [g1 EXCEPT !.restartFrames = Append(@, g1.frame + 1)]
                       ELSE RestartHelp([g1 EXCEPT !.marbles[e] = Respawn(@, e, rnd)], e)
                ELSE g1
    IN [g2 EXCEPT !.marbles[e].slidingTimeout = @ - 1]

\* the simulator's step for one body: the marble moves (a marble without a
\* player falls), and entering the out-of-bounds zone calls goOutOfBounds
StepBody(g, e, cs) ==
  LET m == g.marbles[e]
      mv == IF HasPlayer(e) THEN cs.mv ELSE 1
      pos == Min(m.pos + mv, OobPos)
      m1 == [m EXCEPT !.pos = pos]
  IN IF ~m.addedToGame THEN g
     ELSE [g EXCEPT !.marbles[e] = IF pos = OobPos THEN GoOutOfBounds(m1, g.frame) ELSE m1]

InSeq(x, s) == \E i \in 1..Len(s) : s[i] = x

\* one tick of the game: the frame advances, a restart scheduled for the new
\* frame is performed, the entities update, the simulator steps, the states
\* are saved
TickBody(g, cs, rnd) ==
  LET g1 == [g EXCEPT !.frame = @ + 1, !.loaded = [e \in Marbles |-> <<>>]]
      g2 == IF InSeq(g1.frame, g1.restartFrames) THEN Restart(g1, rnd) ELSE g1
      g3 == MarbleUpdate(MarbleUpdate(g2, 1, cs, rnd), 2, cs, rnd)
  IN StepBody(StepBody(g3, 1, cs), 2, cs)

Tick(g, cs, rnd) == SaveStates(TickBody(g, cs, rnd))

\* what the simulator's step may bring about besides the movement: nothing,
\* or two entities interact and an alert may be displayed with it; edge ids
\* are kept below MaxEdges
Happenings(g) ==
  {[alert |-> FALSE, interaction |-> <<>>]} \cup
  { [alert |-> a, interaction |-> i] :
      a \in BOOLEAN,
      i \in {p \in Entities(g) \X Entities(g) :
               p[1] # p[2] /\ g.nextAffectionEdgeId < MaxEdges} }

\* the happenings of the current frame are carried out
Happen(g, h) ==
  LET g1 == IF h.alert THEN [g EXCEPT !.hud = DisplayAlert(@, 0, g.frame)] ELSE g
  IN IF h.interaction = <<>> THEN g1
     ELSE RecordEntityInteraction(g1, h.interaction[1], h.interaction[2])

\* one tick of the game with its happenings
TickWith(g, cs, rnd, h) == SaveStates(Happen(TickBody(g, cs, rnd), h))

\* the client applies a server-provided state to an entity
ApplyServerState(g, e, s) ==
  [g EXCEPT !.marbles[e] = [LoadState(@, s, TRUE) EXCEPT !.stateNeedsStore = TRUE],
            !.loaded[e] = <<[state |-> s, frame |-> g.frame, remote |-> TRUE]>>]

\* ---------------------------------------------------------------- the game
InitMarble ==
  [pos |-> SpawnPos, oob |-> NoFrame, slidingTimeout |-> 0, addedToGame |-> FALSE,
   stateNeedsStore |-> FALSE, internalStateNeedsStore |-> FALSE]

InitGame(type) ==
  [type |-> type,
   frame |-> -1,
   restartFrames |-> <<>>,
   stateHistory |-> [e \in Marbles |-> <<>>],
   internalStateHistory |-> [e \in Marbles |-> <<>>],
   affectionGraph |-> <<>>,
   nextUpdateId |-> 0,
   nextAffectionEdgeId |-> 0,
   affectedBy |-> [e \in Marbles |-> IF HasPlayer(e) THEN {e} ELSE {}],
   hud |-> [helpMessages |-> <<>>, alerts |-> <<>>],
   marbles |-> [e \in Marbles |-> InitMarble],
   loaded |-> [e \in Marbles |-> <<>>]]

\* the game starts: the level is restarted at frame 0
Start(g) == [g EXCEPT !.restartFrames = Append(@, 0)]

\* ---------------------------------------------- sweep-and-prune broadphase
\* the three dimensions of a bounding box
Dims == 0..2

\* collisionDetectionMask and dynamic flag a BroadphaseObject may carry
Kinds == { [mask |-> 1, dynamic |-> TRUE],
           [mask |-> 2, dynamic |-> FALSE] }

\* a bounding box from its extent on the x axis and on the z axis
Box(x, z) == [min |-> <<x[1], 0, z[1]>>, max |-> <<x[2], 1, z[2]>>]

\* the bounding boxes an object may take: on the x axis they overlap in
\* part, touch at 2 or coincide, on the z axis they coincide or lie apart,
\* and one box lies apart from the others on all three axes
Boxes == { Box(<<0, 2>>, <<0, 1>>), Box(<<1, 3>>, <<0, 1>>),
           Box(<<2, 4>>, <<0, 1>>), Box(<<0, 2>>, <<2, 3>>),
           [min |-> <<5, 2, 4>>, max |-> <<6, 3, 5>>] }

\* a BroadphaseObject as insert() and update() read it
BroadphaseObject(box, kind) ==
  [boundingBox |-> box, collisionDetectionMask |-> kind.mask, dynamic |-> kind.dynamic]

\* array access, with the code's indices starting at 0
At(a, i) == a[i + 1]

\* a.mask & b.mask
RECURSIVE BitAnd(_, _)
BitAnd(a, b) ==
  IF a = 0 \/ b = 0 THEN 0
  ELSE (a % 2) * (b % 2) + 2 * BitAnd(a \div 2, b \div 2)

\* flags & (1 << dimension)
HasBit(flags, dimension) == (flags \div (2 ^ dimension)) % 2 = 1

\* the broadphase as constructed
InitBroadphase ==
  [lists |-> << <<>>, <<>>, <<>> >>,
   objectCount |-> 0,
   flags |-> <<>>,
   anyFlagSet |-> FALSE,
   needsSort |-> FALSE,
   sortStarts |-> <<Inf, Inf, Inf>>,
   sortEnds |-> <<NegInf, NegInf, NegInf>>,
   intersections |-> <<>>]

\* linear index of a pair in the upper triangular flag matrix
FlagIndex(n, i1, i2) ==
  (n * (n - 1)) \div 2 - ((n - i2) * ((n - i2) - 1)) \div 2 + i1 - i2 - 1

\* reading a Uint8Array: an index outside it yields undefined, which the bit
\* operations and the typed-array store both treat as 0
ReadFlags(flags, i) == IF i \in 0..(Len(flags) - 1) THEN flags[i + 1] ELSE 0

\* writing a Uint8Array: a store outside it is ignored
WriteFlags(flags, i, v) ==
  IF i \in 0..(Len(flags) - 1) THEN [flags EXCEPT ![i + 1] = v] ELSE flags

\* the loop of insert() that carries the old flags over, n = objectCount - 1
RECURSIVE CopyFlags(_, _, _, _, _)
CopyFlags(flags, oldFlags, n, o1, o2) ==
  IF ~(o1 < n) THEN flags
  ELSE IF ~(o2 < n - 1) THEN CopyFlags(flags, oldFlags, n, o1 + 1, o1 + 2)
  ELSE CopyFlags(WriteFlags(flags, FlagIndex(n, o1, o2),
                            ReadFlags(oldFlags, FlagIndex(n - 1, o1, o2))),
                 oldFlags, n, o1, o2 + 1)

\* SweepAndPruneBroadphase.insert
Insert(b, object) ==
  LET objectCount == b.objectCount + 1
      objectIndex == objectCount - 1
      proxy(min, dim) ==
        [objectIndex |-> objectIndex,
         min |-> min,
         value |-> IF min THEN object.boundingBox.min[dim + 1]
                   ELSE object.boundingBox.max[dim + 1],
         index |-> Len(b.lists[dim + 1]) + (IF min THEN 0 ELSE 1),
         mask |-> object.collisionDetectionMask,
         dynamic |-> object.dynamic]
      lists == [d \in 1..3 |-> b.lists[d] \o <<proxy(TRUE, d - 1), proxy(FALSE, d - 1)>>]
      n == objectCount - 1
      zeros == [i \in 1..((n * n + n) \div 2) |-> 0]
      last == Len(lists[1]) - 1
  IN [b EXCEPT !.objectCount = objectCount,
               !.lists = lists,
               !.flags = IF b.anyFlagSet THEN CopyFlags(zeros, b.flags, n, 0, 1) ELSE zeros,
               !.needsSort = TRUE,
               !.sortStarts = <<0, 0, 0>>,
               !.sortEnds = <<last, last, last>>]

\* the position of the pair (a, b) in the intersections array, -1 if absent
RECURSIVE FindPair(_, _, _, _)
FindPair(s, k, a, b) ==
  IF ~(k < Len(s) - 1) THEN -1
  ELSE IF At(s, k) = a /\ At(s, k + 1) = b THEN k
  ELSE FindPair(s, k + 2, a, b)

\* intersections.splice(k, 2)
Splice2(s, k) == SubSeq(s, 1, k) \o SubSeq(s, k + 3, Len(s))

\* sort(): two proxies that pass the filter have just been swapped
ToggleFlag(b, dimension, pa, pb) ==
  LET a == IF pb.objectIndex > pa.objectIndex THEN pb ELSE pa
      c == IF pb.objectIndex > pa.objectIndex THEN pa ELSE pb
      flagIndex == FlagIndex(b.objectCount, a.objectIndex, c.objectIndex)
      flags == ReadFlags(b.flags, flagIndex)
      k == FindPair(b.intersections, 0, a.objectIndex, c.objectIndex)
  IN IF HasBit(flags, dimension)
     THEN [b EXCEPT !.flags = WriteFlags(@, flagIndex, flags - 2 ^ dimension),
                    !.intersections = IF flags = 7 /\ k # -1 THEN Splice2(@, k) ELSE @,
                    !.anyFlagSet = TRUE]
     ELSE [b EXCEPT !.flags = WriteFlags(@, flagIndex, flags + 2 ^ dimension),
                    !.intersections = IF flags + 2 ^ dimension = 7
                                        THEN @ \o <<a.objectIndex, c.objectIndex>> ELSE @,
                    !.anyFlagSet = TRUE]

\* the while loop of a sort() that swaps two proxies and leaves their index
\* fields as they were
RECURSIVE SortInnerKeepsIndex(_, _, _, _)
SortInnerKeepsIndex(b, dimension, j, start) ==
  LET list == b.lists[dimension + 1] IN
  IF j > start /\ At(list, j - 1).value > At(list, j).value
    THEN LET pa == At(list, j)
             pb == At(list, j - 1)
             swapped == [b EXCEPT !.lists[dimension + 1] =
                           [list EXCEPT ![j] = pa, ![j + 1] = pb]]
             toggle == /\ pa.objectIndex # pb.objectIndex
                       /\ pa.min # pb.min
                       /\ BitAnd(pa.mask, pb.mask) # 0
                       /\ (pa.dynamic \/ pb.dynamic)
         IN SortInnerKeepsIndex(IF toggle THEN ToggleFlag(swapped, dimension, pa, pb)
                                ELSE swapped,
                                dimension, j - 1, start)
    ELSE b

\* sort(): the while loop that moves list[j] down to its place
RECURSIVE SortInner(_, _, _, _)
SortInner(b, dimension, j, start) ==
  LET list == b.lists[dimension + 1] IN
  IF j > start /\ At(list, j - 1).value > At(list, j).value
    THEN LET pa == [At(list, j) EXCEPT !.index = j - 1]
             pb == [At(list, j - 1) EXCEPT !.index = j]
             swapped == [b EXCEPT !.lists[dimension + 1] =
                           [list EXCEPT ![j] = pa, ![j + 1] = pb]]
             toggle == /\ pa.objectIndex # pb.objectIndex
                       /\ pa.min # pb.min
                       /\ BitAnd(pa.mask, pb.mask) # 0
                       /\ (pa.dynamic \/ pb.dynamic)
         IN SortInner(IF toggle THEN ToggleFlag(swapped, dimension, pa, pb) ELSE swapped,
                      dimension, j - 1, start)
    ELSE b

\* sort(): the for loop over the window
RECURSIVE SortOuter(_, _, _, _, _)
SortOuter(b, dimension, i, start, end) ==
  IF i <= end THEN SortOuter(SortInner(b, dimension, i, start), dimension, i + 1, start, end)
  ELSE b

\* SweepAndPruneBroadphase.sort
Sort(b, dimension) ==
  LET last == Len(b.lists[1]) - 1
      sorted == SortOuter(b, dimension, 1, 0, last)
  IN [sorted EXCEPT
        !.sortStarts = [d \in 1..3 |-> IF d = dimension + 1 THEN Inf ELSE 0],
        !.sortEnds = [d \in 1..3 |-> IF d = dimension + 1 THEN NegInf ELSE last]]

\* the place in a list of the min or max proxy of an object
PositionOf(list, objectIndex, min) ==
  CHOOSE i \in 0..(Len(list) - 1) :
    At(list, i).objectIndex = objectIndex /\ At(list, i).min = min

\* update(): the two loops that widen the window to be sorted
RECURSIVE WidenStart(_, _, _)
WidenStart(list, start, value) ==
  IF start > 0 /\ At(list, start - 1).value > value
    THEN WidenStart(list, start - 1, value) ELSE start

RECURSIVE WidenEnd(_, _, _)
WidenEnd(list, end, value) ==
  IF end < Len(list) - 2 /\ At(list, end + 1).value < value
    THEN WidenEnd(list, end + 1, value) ELSE end

\* update(): one dimension
UpdateDim(b, object, objectIndex, dim) ==
  LET old == b.lists[dim + 1]
      pmin == PositionOf(old, objectIndex, TRUE)
      pmax == PositionOf(old, objectIndex, FALSE)
      list == [old EXCEPT ![pmin + 1].value = object.boundingBox.min[dim + 1],
                          ![pmax + 1].value = object.boundingBox.max[dim + 1]]
      start == WidenStart(list, Min(b.sortStarts[dim + 1], At(list, pmin).index),
                          At(list, pmin).value)
      end == WidenEnd(list, Max(b.sortEnds[dim + 1], At(list, pmax).index),
                      At(list, pmax).value)
  IN [b EXCEPT !.lists[dim + 1] = list,
               !.sortStarts[dim + 1] = start,
               !.sortEnds[dim + 1] = end]

\* update() that returns at once for an object without proxies
UpdateIgnoresUnknown(b, object, objectIndex) ==
  IF ~(objectIndex < b.objectCount) THEN b
  ELSE [UpdateDim(UpdateDim(UpdateDim(b, object, objectIndex, 0),
                            object, objectIndex, 1),
                  object, objectIndex, 2)
          EXCEPT !.needsSort = TRUE]

\* update() that sorts the three axis lists before it returns
UpdateSortsAtOnce(b, object, objectIndex) ==
  LET moved == IF ~(objectIndex < b.objectCount) THEN Insert(b, object)
               ELSE [UpdateDim(UpdateDim(UpdateDim(b, object, objectIndex, 0),
                                         object, objectIndex, 1),
                               object, objectIndex, 2)
                       EXCEPT !.needsSort = TRUE]
  IN [Sort(Sort(Sort(moved, 0), 1), 2) EXCEPT !.needsSort = FALSE]

\* SweepAndPruneBroadphase.update; an object has proxies once it has an index
Update(b, object, objectIndex) ==
  IF ~(objectIndex < b.objectCount) THEN Insert(b, object)
  ELSE [UpdateDim(UpdateDim(UpdateDim(b, object, objectIndex, 0),
                            object, objectIndex, 1),
                  object, objectIndex, 2)
          EXCEPT !.needsSort = TRUE]

\* SweepAndPruneBroadphase.recompute
Recompute(b) ==
  IF b.needsSort THEN [Sort(Sort(Sort(b, 0), 1), 2) EXCEPT !.needsSort = FALSE]
  ELSE b

\* ---------------------------------------------- one-shot presentation effects
\* ids of the power-ups and of the marbles that request effects
PowerUpIds == {1, 11}
MarbleIds == {2, 12}

\* `${this.id}jump`
JumpKey(id) == ToString(id) \o "jump"

\* `${this.id}bounceParticles`
BounceParticlesKey(id) == ToString(id) \o "bounceParticles"

UseCosmeticKeyUnseparated(id, marbleId) ==
  ToString(id) \o ToString(marbleId) \o "useCosmetic"

\* `${this.id} ${marble.id}useCosmetic`
UseCosmeticKey(id, marbleId) ==
  ToString(id) \o " " \o ToString(marbleId) \o "useCosmetic"

\* a presentation effect, named by what is presented and for whom
Effect(name, entity, marble) == [name |-> name, entity |-> entity, marble |-> marble]

\* Marble.playJumpSound: the requests it makes to the guard
PlayJumpSound(id) == << [effect |-> Effect("jump", id, 0), key |-> JumpKey(id)] >>

\* Marble.playBounceSound returns before it reaches the guard
PlayBounceSound(id) == << >>

\* Marble.showBounceParticles
ShowBounceParticles(id) ==
  << [effect |-> Effect("bounceParticles", id, 0), key |-> BounceParticlesKey(id)] >>

\* MegaMarble.useCosmetically
UseCosmetically(id, marbleId) ==
  << [effect |-> Effect("useCosmetic", id, marbleId), key |-> UseCosmeticKey(id, marbleId)] >>

\* what a tick may present: nothing, a marble that jumps and bounces, both
\* marbles jumping, both power-ups used by the marbles crosswise
TickEvents ==
  { << >>,
    PlayJumpSound(2) \o ShowBounceParticles(2) \o PlayBounceSound(2),
    PlayJumpSound(2) \o PlayJumpSound(12),
    UseCosmetically(1, 12) \o UseCosmetically(11, 2) }

\* the simulator with its guard: the frame, how often each frame was run,
\* what each frame presents, the occurrences the guard has let through and
\* the effects that ran
InitFx ==
  [frame |-> 0,
   runs |-> [f \in 1..MaxFrame |-> 0],
   events |-> [f \in 1..MaxFrame |-> << >>],
   executed |-> {},
   ran |-> << >>,
   rollbacks |-> 0]

\* Simulator.executeNonDuplicatableEvent: an occurrence is a key in a frame
ExecuteNonDuplicatableEvent(f, request, frame) ==
  IF <<request.key, frame>> \in f.executed THEN f
  ELSE [f EXCEPT !.executed = @ \cup {<<request.key, frame>>},
                 !.ran = Append(@, <<request.effect, frame>>)]

\* the requests of a tick, in the order the tick makes them
RECURSIVE RunRequests(_, _, _)
RunRequests(f, requests, frame) ==
  IF requests = << >> THEN f
  ELSE RunRequests(ExecuteNonDuplicatableEvent(f, Head(requests), frame),
                   Tail(requests), frame)

\* no reconciliation is under way
NoRecon == [phase |-> "idle", target |-> NoFrame, until |-> NoFrame]

NoCall == [op |-> "init", target |-> NoFrame, from |-> NoFrame,
           popped |-> {}, ipopped |-> {}, saved |-> FALSE]

Frames == -1..MaxFrame + 1
NoLoads == [e \in Marbles |-> <<>>]
EntityStates(g) == [e \in Marbles |-> GetState(g.marbles[e])]

gameVars == <<game, twin, controlStates, firstRecorded, lastCall, preSave, afterRollBack,
              calls, recon>>
bpVars == <<objects, bp, bpLog>>
fxVars == <<fx>>
sideVars == <<flood, interp, world, contact, screen, solo, options>>
vars == <<gameVars, recon, bpVars, fxVars, sideVars>>

\* the state after construction, the world of the trigger being one of `worlds`
InitWith(worlds) ==
  /\ game \in {Start(InitGame(t)) : t \in GameTypes}
  /\ twin = game
  /\ controlStates = [f \in Frames |-> <<>>]
  /\ firstRecorded = [e \in Marbles |-> [f \in Frames |-> <<>>]]
  /\ lastCall = NoCall
  /\ preSave = game
  /\ afterRollBack = [f \in Frames |-> <<>>]
  /\ calls = 0
  /\ recon = NoRecon
  /\ objects = <<>>
  /\ bp = InitBroadphase
  /\ bpLog = [op |-> "init", used |-> FALSE, lateInsert |-> FALSE, fresh |-> FALSE, ops |-> 0]
  /\ fx = InitFx
  /\ flood = InitFlood
  /\ interp = InitInterp
  /\ contact = InitContact
  /\ screen = InitScreen
  /\ solo = InitSolo
  /\ options = InitOptions
  /\ world \in worlds

Init == InitWith({InitWorld(FALSE)})

\* the state recorded for entity e at frame f, <<>> when there is none
RecordedAt(g, e, f) ==
  LET h == g.stateHistory[e]
      idx == {i \in 1..Len(h) : h[i].frame = f}
  IN IF idx = {} THEN <<>> ELSE h[CHOOSE i \in idx : TRUE].state

PoppedBy(g, f) == {e \in Marbles : Len(PopAbove(g.stateHistory[e], f)) < Len(g.stateHistory[e])}
IPoppedBy(g, f) ==
  {e \in Marbles : Len(PopAbove(g.internalStateHistory[e], f)) < Len(g.internalStateHistory[e])}

\* a tick; the local player's control state for a frame is buffered when the
\* frame is first simulated and replayed afterwards
DoTickOf(rnds) ==
  /\ game.frame < MaxFrame
  /\ recon.phase = "idle"
  /\ \E cs \in ControlStates, rnd \in rnds :
       LET f == game.frame + 1 IN
       /\ controlStates[f] # <<>> => cs = controlStates[f][1]
       /\ controlStates' = [controlStates EXCEPT ![f] = <<cs>>]
       /\ preSave' = TickBody(game, cs, rnd)
       /\ game' = Tick(game, cs, rnd)
       /\ firstRecorded' = [e \in Marbles |->
            IF firstRecorded[e][f] = <<>>
              THEN [firstRecorded[e] EXCEPT ![f] = RecordedAt(game', e, f)]
              ELSE firstRecorded[e]]
       /\ lastCall' = [NoCall EXCEPT !.op = "tick", !.from = game.frame, !.saved = TRUE]
  /\ UNCHANGED <<twin, afterRollBack, calls, recon, bpVars, fxVars, sideVars>>

DoTick == DoTickOf(RandomPositions)

\* GameState.rollBackToFrame(target)
DoRollBackIn(targets) ==
  /\ calls < MaxCalls
  /\ \E target \in targets :
       LET g == [game EXCEPT !.loaded = NoLoads] IN
       /\ game' = RollBackToFrame(g, target)
       /\ preSave' = IF target = game.frame THEN preSave ELSE RollBackBody(g, target)
       /\ lastCall' = [op |-> "rollBackToFrame", target |-> target, from |-> game.frame,
                       popped |-> IF target = game.frame THEN {} ELSE PoppedBy(game, target),
                       ipopped |-> IF target = game.frame THEN {} ELSE IPoppedBy(game, target),
                       saved |-> target # game.frame]
       /\ afterRollBack' = [f \in Frames |->
            IF target = game.frame THEN afterRollBack[f]
            ELSE IF f > target THEN <<>>
            ELSE IF f = target /\ afterRollBack[f] = <<>> THEN <<EntityStates(game')>>
            ELSE afterRollBack[f]]
  /\ calls' = calls + 1
  /\ UNCHANGED <<twin, controlStates, firstRecorded, recon, bpVars, fxVars, sideVars>>

DoRollBack == DoRollBackIn(-1..game.frame)

\* a server snapshot for the current frame is applied to an entity after the
\* rollback to its frame; what was recorded from this frame on no longer
\* stands for the inputs in force
DoServerUpdate ==
  /\ calls < MaxCalls
  /\ game.type = "multiplayer"
  /\ lastCall.op = "rollBackToFrame"
  /\ game.frame >= 0
  /\ \E e \in Marbles, s \in {[pos |-> p, oob |-> NoFrame] : p \in RandomPositions} :
       /\ game.marbles[e].addedToGame
       /\ game' = ApplyServerState([game EXCEPT !.loaded = NoLoads], e, s)
       /\ lastCall' = [NoCall EXCEPT !.op = "serverUpdate", !.from = game.frame]
  /\ firstRecorded' = [e \in Marbles |-> [f \in Frames |->
        IF f >= game.frame THEN <<>> ELSE firstRecorded[e][f]]]
  /\ afterRollBack' = [f \in Frames |-> IF f >= game.frame THEN <<>> ELSE afterRollBack[f]]
  /\ calls' = calls + 1
  /\ UNCHANGED <<twin, controlStates, preSave, recon, bpVars, fxVars, sideVars>>

\* GameState.saveStates(), called once the server's states are loaded, and
\* possibly a second time in the same frame
DoSaveStates ==
  /\ \/ lastCall.op = "serverUpdate"
     \/ /\ lastCall.op = "saveStates"
        /\ \E e \in Marbles :
             preSave.marbles[e].stateNeedsStore \/ preSave.marbles[e].internalStateNeedsStore
  /\ preSave' = [game EXCEPT !.loaded = NoLoads]
  /\ game' = SaveStates(preSave')
  /\ lastCall' = [NoCall EXCEPT !.op = "saveStates", !.from = game.frame, !.saved = TRUE]
  /\ UNCHANGED <<twin, controlStates, firstRecorded, afterRollBack, calls, recon, bpVars, fxVars, sideVars>>

Next == DoTick \/ DoRollBack \/ DoServerUpdate \/ DoSaveStates

Spec == Init /\ [][Next]_vars

\* ------------------------------------------- ticks with alerts and interactions
\* the control state and the Math.random() value of these runs
AuxControlStates == {[mv |-> 1, using |-> FALSE]}
AuxRandomPositions == {0}

\* a tick in which entities may interact and an alert may be displayed
AuxTick ==
  /\ game.frame < MaxFrame
  /\ \E cs \in AuxControlStates, rnd \in AuxRandomPositions, h \in Happenings(game) :
       /\ game' = TickWith(game, cs, rnd, h)
       /\ preSave' = Happen(TickBody(game, cs, rnd), h)
       /\ lastCall' = [NoCall EXCEPT !.op = "tick", !.from = game.frame, !.saved = TRUE]
  /\ UNCHANGED <<twin, controlStates, firstRecorded, afterRollBack, calls, recon, bpVars, fxVars, sideVars>>

NextAux == AuxTick \/ DoRollBack

SpecAux == Init /\ [][NextAux]_vars

\* rollBackToFrame called with any frame, also one the game has not reached
DoRollBackAny == DoRollBackIn(-1..MaxFrame)

NextAnyTarget == DoTick \/ DoRollBackAny


\* ------------------------------------------------------------ reconciliation
\* a server snapshot for frame target arrives: the client rolls back to it
ReconRollBack ==
  /\ calls < MaxCalls
  /\ game.type = "multiplayer"
  /\ recon.phase = "idle"
  /\ game.frame >= 0
  /\ \E target \in 0..game.frame :
       LET g == [game EXCEPT !.loaded = NoLoads] IN
       /\ game' = RollBackToFrame(g, target)
       /\ preSave' = IF target = game.frame THEN preSave ELSE RollBackBody(g, target)
       /\ lastCall' = [op |-> "rollBackToFrame", target |-> target, from |-> game.frame,
                       popped |-> IF target = game.frame THEN {} ELSE PoppedBy(game, target),
                       ipopped |-> IF target = game.frame THEN {} ELSE IPoppedBy(game, target),
                       saved |-> target # game.frame]
       /\ recon' = [phase |-> "loading", target |-> target, until |-> game.frame]
  /\ calls' = calls + 1
  /\ UNCHANGED <<twin, controlStates, firstRecorded, afterRollBack, bpVars, fxVars, sideVars>>

\* the server-provided state of an entity is loaded as remote; with the frame
\* back at its value before the snapshot the reconciliation is over
ReconLoad ==
  /\ recon.phase = "loading"
  /\ \E e \in Marbles, s \in {[pos |-> p, oob |-> NoFrame] : p \in AuxRandomPositions} :
       /\ game.marbles[e].addedToGame
       /\ game' = ApplyServerState([game EXCEPT !.loaded = NoLoads], e, s)
       /\ lastCall' = [NoCall EXCEPT !.op = "serverUpdate", !.from = game.frame]
  /\ recon' = [recon EXCEPT !.phase = IF game.frame = recon.until THEN "idle" ELSE "replaying"]
  /\ UNCHANGED <<twin, controlStates, firstRecorded, preSave, afterRollBack, calls,
                 bpVars, fxVars, sideVars>>

\* the client re-advances by one tick with the control state buffered for it
ReconReplay ==
  /\ recon.phase = "replaying"
  /\ game.frame < recon.until
  /\ \E rnd \in AuxRandomPositions :
       LET f == game.frame + 1
           cs == controlStates[f][1]
       IN /\ preSave' = TickBody(game, cs, rnd)
          /\ game' = Tick(game, cs, rnd)
          /\ lastCall' = [NoCall EXCEPT !.op = "tick", !.from = game.frame, !.saved = TRUE]
          /\ recon' = [recon EXCEPT !.phase = IF f = recon.until THEN "idle" ELSE "replaying"]
  /\ UNCHANGED <<twin, controlStates, firstRecorded, afterRollBack, calls, bpVars, fxVars, sideVars>>

\* a tick of the client between two snapshots
ReconTick == DoTickOf(AuxRandomPositions)

NextRecon == ReconTick \/ ReconRollBack \/ ReconLoad \/ ReconReplay

SpecRecon == Init /\ [][NextRecon]_vars

\* the controller handles a snapshot in one go: once it has rolled back, the
\* load and each replayed tick follow without waiting for anything
\* ReconReplay can take a step exactly in these states
ReconReplayEnabled == recon.phase = "replaying" /\ game.frame < recon.until

\* WF_vars(ReconReplay), with the enabling condition written out
ReconReplayFair == []<>(~ReconReplayEnabled) \/ []<><<ReconReplay>>_vars

SpecReconFair == SpecRecon /\ WF_vars(ReconLoad) /\ ReconReplayFair

\* ------------------------------------------------------------ the twin run
\* the same game run twice, tick by tick, from the same initial state and with
\* the same control state in every frame; each run draws its own Math.random()
DetTick ==
  /\ game.frame < MaxFrame
  /\ \E cs \in ControlStates, rnd \in RandomPositions, twinRnd \in RandomPositions :
       /\ game' = Tick(game, cs, rnd)
       /\ twin' = Tick(twin, cs, twinRnd)
       /\ controlStates' = [controlStates EXCEPT ![game.frame + 1] = <<cs>>]
       /\ lastCall' = [NoCall EXCEPT !.op = "tick", !.from = game.frame, !.saved = TRUE]
  /\ UNCHANGED <<firstRecorded, preSave, afterRollBack, calls, recon, bpVars, fxVars, sideVars>>

NextDet == DetTick

SpecDet == Init /\ [][NextDet]_vars

\* ------------------------------------------------------------------ claims

\* ---------------------------------------------- broadphase: insert, move, recompute
\* the world inserts a new object with one of the given boxes and kinds
BpInsertOf(boxes, kinds) ==
  /\ bpLog.ops < MaxOps
  /\ Len(objects) < MaxObjects
  /\ \E box \in boxes, kind \in kinds :
       /\ objects' = Append(objects, BroadphaseObject(box, kind))
       /\ bp' = Insert(bp, BroadphaseObject(box, kind))
  /\ bpLog' = [op |-> "insert", used |-> bpLog.used, fresh |-> TRUE,
               lateInsert |-> bpLog.lateInsert \/ bpLog.used, ops |-> bpLog.ops + 1]
  /\ UNCHANGED <<gameVars, fxVars, sideVars>>

BpInsert == BpInsertOf(Boxes, Kinds)

\* an object moves and the world calls update() for it; an object the
\* broadphase has not seen is inserted by the call
BpUpdateOf(boxes, kinds) ==
  /\ bpLog.ops < MaxOps
  /\ \/ \E o \in 0..(Len(objects) - 1), box \in boxes :
          /\ objects' = [objects EXCEPT ![o + 1].boundingBox = box]
          /\ bp' = Update(bp, objects'[o + 1], o)
          /\ bpLog' = [bpLog EXCEPT !.op = "update", !.used = TRUE, !.fresh = FALSE,
                                    !.ops = @ + 1]
     \/ /\ Len(objects) < MaxObjects
        /\ \E box \in boxes, kind \in kinds :
             /\ objects' = Append(objects, BroadphaseObject(box, kind))
             /\ bp' = Update(bp, BroadphaseObject(box, kind), Len(objects))
        /\ bpLog' = [op |-> "update", used |-> bpLog.used, fresh |-> TRUE,
                     lateInsert |-> bpLog.lateInsert \/ bpLog.used, ops |-> bpLog.ops + 1]
  /\ UNCHANGED <<gameVars, fxVars, sideVars>>

BpUpdate == BpUpdateOf(Boxes, Kinds)

\* the world asks for the intersections
BpRecompute ==
  /\ bpLog.ops < MaxOps
  /\ bp' = Recompute(bp)
  /\ bpLog' = [bpLog EXCEPT !.op = "recompute", !.used = TRUE, !.fresh = FALSE,
                            !.ops = @ + 1]
  /\ UNCHANGED <<objects, gameVars, fxVars, sideVars>>

NextBP == BpInsert \/ BpUpdate \/ BpRecompute
InitBP == Init /\ game.type = "singleplayer"
SpecBP == InitBP /\ [][NextBP]_vars

\* the same operations for marbles only, which take one of three boxes: the
\* box at the origin, a box that overlaps it in part, or the box that lies
\* apart from both on all three axes
MarbleBoxes == { Box(<<0, 2>>, <<0, 1>>), Box(<<1, 3>>, <<0, 1>>),
                 [min |-> <<5, 2, 4>>, max |-> <<6, 3, 5>>] }
MarbleKinds == { [mask |-> 1, dynamic |-> TRUE] }
BpInsertMarble == BpInsertOf(MarbleBoxes, MarbleKinds)
BpUpdateMarble == BpUpdateOf(MarbleBoxes, MarbleKinds)
NextBPMarbles == BpInsertMarble \/ BpUpdateMarble \/ BpRecompute
SpecBPMarbles == InitBP /\ [][NextBPMarbles]_vars

\* ---------------------------------------------- effects: tick and replay
\* a tick; what a frame presents is fixed when the frame is first run
FxTick ==
  /\ fx.frame < MaxFrame
  /\ \E ev \in TickEvents :
       LET f == fx.frame + 1 IN
       /\ fx.runs[f] > 0 => ev = fx.events[f]
       /\ fx' = RunRequests([fx EXCEPT !.frame = f, !.runs[f] = @ + 1, !.events[f] = ev],
                            ev, f)
  /\ UNCHANGED <<gameVars, bpVars, sideVars>>

\* reconciliation rolls back to an earlier frame; the ticks that follow are replays
FxRollBack ==
  /\ fx.rollbacks < MaxCalls
  /\ \E target \in 0..(fx.frame - 1) :
       fx' = [fx EXCEPT !.frame = target, !.rollbacks = @ + 1]
  /\ UNCHANGED <<gameVars, bpVars, sideVars>>

NextFx == FxTick \/ FxRollBack
InitReplay == Init /\ game.type = "multiplayer"
SpecFx == InitReplay /\ [][NextFx]_vars

\* a multiplayer game whose rollbacks may name any frame
SpecAnyTarget == InitReplay /\ [][NextAnyTarget]_vars

\* ------------------------------------------- causality propagation, step by step
\* an entity's action influences an entity, possibly itself
FloodRecord ==
  /\ flood.stack = <<>>
  /\ flood.nextAffectionEdgeId < MaxRecords
  /\ \E e1 \in FloodEntities, e2 \in FloodEntities : flood' = RecordCall(flood, e1, e2)
  /\ UNCHANGED <<gameVars, bpVars, fxVars, interp, world, contact, screen, solo, options>>

\* the innermost propagate call runs its player loop
FloodPlayersStep ==
  /\ flood.stack # <<>>
  /\ Last(flood.stack).i = 0
  /\ flood' = PropagatePlayers(flood)
  /\ UNCHANGED <<gameVars, bpVars, fxVars, interp, world, contact, screen, solo, options>>

\* the innermost propagate call takes one turn of its edge loop
FloodEdgeStep ==
  /\ flood.stack # <<>>
  /\ Last(flood.stack).i > 0
  /\ Len(flood.stack) < MaxCallDepth
  /\ flood' = PropagateEdge(flood)
  /\ UNCHANGED <<gameVars, bpVars, fxVars, interp, world, contact, screen, solo, options>>

NextFlood == FloodRecord \/ FloodPlayersStep \/ FloodEdgeStep
SpecFlood == InitBP /\ [][NextFlood]_vars

\* a call that has begun runs on: JavaScript runs it to completion
SpecFloodFair == SpecFlood /\ WF_vars(FloodPlayersStep) /\ WF_vars(FloodEdgeStep)

\* ------------------------------------------------ a marble under reconciliation
\* a reconciliation: the position before it is noted, the replay leaves the
\* marble at the corrected position, and afterReconciliation() runs
InterpReconcile ==
  /\ \E frameGap \in FrameGaps, corrected \in InterpPositions :
       interp' = AfterReconciliation(
                   [BeforeReconciliation(interp) EXCEPT !.position = corrected,
                                                        !.frameGap = frameGap],
                   frameGap)
  /\ UNCHANGED <<gameVars, bpVars, fxVars, flood, world, contact, screen, solo, options>>

\* a tick outside a reconciliation ends with postUpdate()
InterpPostUpdate ==
  /\ interp.interpolationRemaining > -MaxIdleFrames
  /\ interp' = PostUpdate(interp)
  /\ UNCHANGED <<gameVars, bpVars, fxVars, flood, world, contact, screen, solo, options>>

\* the marble is teleported or respawned: cancelInterpolation()
InterpCancel ==
  /\ interp' = CancelInterpolation(interp)
  /\ UNCHANGED <<gameVars, bpVars, fxVars, flood, world, contact, screen, solo, options>>

NextInterp == InterpReconcile \/ InterpPostUpdate \/ InterpCancel
SpecInterp == InitReplay /\ [][NextInterp]_vars

\* ------------------------------------------------------ the world of a trigger
\* Game.tick of a world in which the marbles of `over` overlap the trigger:
\* the frame is counted, the simulator steps, Marble.update marks the
\* marbles' internal state for storing, saveStates() runs
WorldTickBody(w, over) ==
  LET stepped == SimulatorStep([w EXCEPT !.frame = @ + 1], over)
      updated == [stepped EXCEPT !.needsStore =
                    [e \in WorldEntities |->
                       IF e \in WorldMarbles \cap w.present THEN TRUE ELSE @[e]]]
      saved == WorldSaveStates(updated)
      f == saved.frame
      isNew == f > w.reached
  IN Collect([saved EXCEPT
       !.op = "tick", !.reached = Max(@, f), !.overlap[f] = over,
       !.firstInternal[f] = IF isNew THEN saved.heap[saved.currentlyColliding] ELSE @,
       !.first = IF isNew THEN @ \cup {ev \in saved.fired : ev.frame = f} ELSE @])

\* a frame that is simulated again finds the marbles where they were
WorldTick ==
  /\ ~world.raised
  /\ world.frame < MaxWorldFrame
  /\ \E over \in SUBSET (WorldMarbles \cap world.present) :
       /\ world.frame + 1 <= world.reached =>
            over = world.overlap[world.frame + 1] \cap world.present
       /\ world' = WorldTickBody(world, over)
  /\ UNCHANGED <<gameVars, bpVars, fxVars, flood, interp, contact, screen, solo, options>>

\* rollBackToFrame, the loop over internalStateHistory for one entity; a
\* call on the null that getEntityById returns raises
WorldRollBackEntity(w, e, target) ==
  IF w.raised THEN w
  ELSE LET history == PopAbove(w.internalStateHistory[e], target)
           popped == Len(history) < Len(w.internalStateHistory[e])
       IN IF ~popped THEN w
          ELSE IF e \notin w.present
            THEN [w EXCEPT !.internalStateHistory[e] = history, !.raised = TRUE]
          ELSE WorldLoadInternalState([w EXCEPT !.internalStateHistory[e] = history],
                                      e, Last(history).state)

\* rollBackToFrame, the loop over stateHistory: rollBackEntityToFrame reads
\* entity.id of what getEntityById returns
WorldRollBackStates(w) ==
  IF w.raised \/ WorldEntities \subseteq w.present THEN w ELSE [w EXCEPT !.raised = TRUE]

\* GameState.rollBackToFrame in this world. The collisions of the trigger's
\* body are those the marbles' bodies were given back (`restored`) or are
\* left as they were
WorldRollBackBody(w, target, restored) ==
  LET begun == [w EXCEPT !.frame = target, !.op = "rollback", !.rolledBack = TRUE,
                         !.fired = {ev \in @ : ev.frame <= target}]
      internal == WorldRollBackEntity(WorldRollBackEntity(begun, 1, target), 2, target)
      states == WorldRollBackStates(internal)
      saved == IF states.raised THEN states ELSE WorldSaveStates(states)
  IN Collect(IF restored /\ ~saved.raised
               THEN [saved EXCEPT !.collisions =
                       {m \in WorldMarbles \cap saved.present :
                          WorldTrigger \in saved.heap[saved.marbleCollisions[m]]}]
               ELSE saved)

WorldRollBack ==
  /\ ~world.raised
  /\ \E target \in -1..(world.frame - 1), restored \in BOOLEAN :
       world' = WorldRollBackBody(world, target, restored)
  /\ UNCHANGED <<gameVars, bpVars, fxVars, flood, interp, contact, screen, solo, options>>

\* a marble leaves the game: getEntityById returns null for its id from now on
WorldRemove ==
  /\ ~world.raised
  /\ \E m \in WorldMarbles \cap world.present :
       world' = [world EXCEPT !.present = @ \ {m}, !.op = "remove"]
  /\ UNCHANGED <<gameVars, bpVars, fxVars, flood, interp, contact, screen, solo, options>>

InitEitherFlag ==
  InitWith({InitWorld(flag) : flag \in BOOLEAN}) /\ game.type = "singleplayer"

NextWorld == WorldTick \/ WorldRollBack
SpecWorld == InitEitherFlag /\ [][NextWorld]_vars

\* the same world with marbles that leave
NextWorldStale == WorldTick \/ WorldRollBack \/ WorldRemove
SpecWorldStale == InitEitherFlag /\ [][NextWorldStale]_vars

\* ------------------------------------------------------- the collisions of a tick
\* the collision detection of a tick reports one more collision, the first
\* one of a tick starting the list anew; it reports at most one collision
\* for two shapes
ContactDetect ==
  LET collisions == IF contact.responded THEN <<>> ELSE contact.collisions IN
  /\ Len(collisions) < MaxCollisions
  /\ \E c \in Collisions :
       /\ \A i \in 1..Len(collisions) :
            {collisions[i].s1, collisions[i].s2} # {c.s1, c.s2}
       /\ contact' = [InitContact EXCEPT !.collisions = Append(collisions, c)]
  /\ UNCHANGED <<gameVars, bpVars, fxVars, flood, interp, world, screen, solo, options>>

\* every marble's onBeforeCollisionResponse runs on the collisions of the
\* tick; `best` notes what findBestCollision returns to each marble
ContactRespond ==
  /\ ~contact.responded
  /\ contact' = [collisions |-> contact.collisions,
                 best |-> [m \in ContactMarbles |->
                             [which \in ScoreNames |->
                                FindBestCollision(contact.collisions, m, which)]],
                 processed |-> [m \in ContactMarbles |->
                                  OnBeforeCollisionResponse(contact.collisions, m)],
                 responded |-> TRUE]
  /\ UNCHANGED <<gameVars, bpVars, fxVars, flood, interp, world, screen, solo, options>>

NextContact == ContactDetect \/ ContactRespond
SpecContact == InitBP /\ [][NextContact]_vars

\* ------------------------------------------------------------ the HUD's queues
ScreenDisplayHelp ==
  /\ \E getMessage \in HudMessages, frame \in HudFrames :
       screen' = [hud |-> DisplayHelp(screen.hud, getMessage, frame),
                  latest |-> [screen.latest EXCEPT !["helpMessages"][frame] = getMessage]]
  /\ UNCHANGED <<gameVars, bpVars, fxVars, flood, interp, world, contact, solo, options>>

ScreenDisplayAlert ==
  /\ \E getMessage \in HudMessages, frame \in HudFrames :
       screen' = [hud |-> DisplayAlert(screen.hud, getMessage, frame),
                  latest |-> [screen.latest EXCEPT !["alerts"][frame] = getMessage]]
  /\ UNCHANGED <<gameVars, bpVars, fxVars, flood, interp, world, contact, solo, options>>

\* rollBackToFrame(target), as far as the queues go
ScreenRollBack ==
  /\ \E target \in -1..MaxHudFrame :
       screen' = [hud |-> RollBackHud(screen.hud, target),
                  latest |-> [screen.latest EXCEPT
                                !["alerts"] = [f \in HudFrames |-> IF f > target THEN 0 ELSE @[f]]]]
  /\ UNCHANGED <<gameVars, bpVars, fxVars, flood, interp, world, contact, solo, options>>

NextScreen == ScreenDisplayHelp \/ ScreenDisplayAlert \/ ScreenRollBack
SpecScreen == InitBP /\ [][NextScreen]_vars

\* ------------------------------------------------------------- one marble
\* one tick: the frame advances, a restart scheduled for the new frame is
\* performed, the marble updates and post-updates; only a multiplayer game
\* replays ticks in a reconciliation
SoloTick ==
  /\ solo.frame < MaxSoloFrame
  /\ \E using \in BOOLEAN,
        reconciling \in IF game.type = "multiplayer" THEN BOOLEAN ELSE {FALSE} :
       LET m0 == [solo EXCEPT !.frame = @ + 1, !.op = "tick", !.using = using,
                              !.reconciling = reconciling, !.respawned = "none",
                              !.stateNeedsStore = FALSE]
           m1 == IF InSeq(m0.frame, m0.restartFrames) THEN RestartMarble(m0) ELSE m0
       IN solo' = PostUpdateIn(UpdateMarble(m1, game.type, using, reconciling), reconciling)
  /\ UNCHANGED <<gameVars, bpVars, fxVars, flood, interp, world, contact, screen, options>>

\* the simulator's step takes the marble into the out-of-bounds trigger
SoloGoOutOfBounds ==
  /\ solo' = [GoOutOfBoundsAt(solo, solo.frame) EXCEPT !.op = "goOutOfBounds"]
  /\ UNCHANGED <<gameVars, bpVars, fxVars, flood, interp, world, contact, screen, options>>

\* the marble touches the finish pad; the game is finished with it, legally
\* or not
SoloTouchFinish ==
  /\ ~solo.inFinishState
  /\ \E legal \in BOOLEAN :
       solo' = [EnableFinishState(solo) EXCEPT !.finishedLegal = legal, !.op = "finish"]
  /\ UNCHANGED <<gameVars, bpVars, fxVars, flood, interp, world, contact, screen, options>>

\* the marble reaches a checkpoint
SoloCheckpoint ==
  /\ ~solo.currentCheckpoint
  /\ solo' = [solo EXCEPT !.currentCheckpoint = TRUE, !.op = "checkpoint"]
  /\ UNCHANGED <<gameVars, bpVars, fxVars, flood, interp, world, contact, screen, options>>

\* a reconciliation ended with the marble elsewhere: afterReconciliation()
\* starts an interpolation
SoloAfterReconciliation ==
  /\ game.type = "multiplayer"
  /\ solo.interpolationRemaining <= MinInterpolationFrames
  /\ solo' = [solo EXCEPT !.interpolationRemaining = MinInterpolationFrames,
                           !.op = "afterReconciliation"]
  /\ UNCHANGED <<gameVars, bpVars, fxVars, flood, interp, world, contact, screen, options>>

NextSolo ==
  SoloTick \/ SoloGoOutOfBounds \/ SoloTouchFinish \/ SoloCheckpoint \/ SoloAfterReconciliation
SpecSolo == Init /\ [][NextSolo]_vars

\* a power-up starts or stops being active
SoloPowerUp ==
  /\ \E p \in PowerUps :
       solo' = [solo EXCEPT !.active = IF p \in @ THEN @ \ {p} ELSE @ \cup {p},
                            !.op = "powerUp"]
  /\ UNCHANGED <<gameVars, bpVars, fxVars, flood, interp, world, contact, screen, options>>

\* the marble enters the teleport trigger: the countdown starts
SoloTeleportEnter ==
  /\ LET ts == IF solo.teleportStates = <<>>
                 THEN <<[entryFrame |-> NoFrame, exitFrame |-> NoFrame]>>
                 ELSE solo.teleportStates
     IN solo' = [solo EXCEPT !.teleportStates =
                                [ts EXCEPT ![1] = [entryFrame |-> solo.frame, exitFrame |-> NoFrame]],
                             !.op = "teleportEnter"]
  /\ UNCHANGED <<gameVars, bpVars, fxVars, flood, interp, world, contact, screen, options>>

\* the marble leaves the teleport trigger
SoloTeleportLeave ==
  /\ solo.teleportStates # <<>>
  /\ solo.teleportStates[1].entryFrame # NoFrame
  /\ solo' = [solo EXCEPT !.teleportStates[1].exitFrame = solo.frame, !.op = "teleportLeave"]
  /\ UNCHANGED <<gameVars, bpVars, fxVars, flood, interp, world, contact, screen, options>>

\* the marble touches the end pad's collider
SoloEndPad ==
  /\ \E timeout \in 1..MaxEndPadTimeout :
       solo' = [solo EXCEPT !.endPadColliderTimeout = timeout, !.op = "endPad"]
  /\ UNCHANGED <<gameVars, bpVars, fxVars, flood, interp, world, contact, screen, options>>

NextTeleport == SoloTick \/ SoloTeleportEnter \/ SoloTeleportLeave \/ SoloEndPad
SpecTeleport == InitBP /\ [][NextTeleport]_vars

NextSound == SoloTick \/ SoloPowerUp \/ SoloTouchFinish \/ SoloAfterReconciliation
SpecSound == InitReplay /\ [][NextSound]_vars

\* ------------------------------------------------------ the options screen
\* the player clicks the binding of a game button
OptionsChange ==
  /\ \E button \in GameButtons :
       options' = [ChangeKeybinding(options, button) EXCEPT !.op = "changeKeybinding", !.code = Null]
  /\ UNCHANGED <<gameVars, bpVars, fxVars, flood, interp, world, contact, screen, solo>>

OptionsKeyDown ==
  /\ \E code \in KeyCodes :
       options' = [OnKeyDown(options, code) EXCEPT !.op = "keydown", !.code = code]
  /\ UNCHANGED <<gameVars, bpVars, fxVars, flood, interp, world, contact, screen, solo>>

OptionsMouseDown ==
  /\ \E button \in MouseButtons :
       options' = [OnMouseDown(options, button) EXCEPT !.op = "mousedown", !.code = ButtonName(button)]
  /\ UNCHANGED <<gameVars, bpVars, fxVars, flood, interp, world, contact, screen, solo>>

\* the buttons of the conflict dialog can be clicked while it is shown
OptionsYes ==
  /\ ~options.rebindConfirmHidden
  /\ options' = [OnConfirmYes(options) EXCEPT !.op = "yes", !.code = Null]
  /\ UNCHANGED <<gameVars, bpVars, fxVars, flood, interp, world, contact, screen, solo>>

OptionsNo ==
  /\ ~options.rebindConfirmHidden
  /\ options' = [OnConfirmNo(options) EXCEPT !.op = "no", !.code = Null]
  /\ UNCHANGED <<gameVars, bpVars, fxVars, flood, interp, world, contact, screen, solo>>

NextOptions == OptionsChange \/ OptionsKeyDown \/ OptionsMouseDown \/ OptionsYes \/ OptionsNo
SpecOptions == InitBP /\ [][NextOptions]_vars

AfterRollBack == lastCall.op = "rollBackToFrame" /\ lastCall.target # lastCall.from

\* C1: once an entity's state at a frame has been recorded, rolling back to an
\* earlier frame and re-advancing tick by tick with the same per-frame control
\* states records the same state at that frame again.
C1_ReplayReproducesRecordedState ==
  \A e \in Marbles, f \in Frames :
    (0 <= f /\ f <= game.frame /\ firstRecorded[e][f] # <<>>)
      => RecordedAt(game, e, f) = firstRecorded[e][f]

\* C4: two runs of the simulation from the same initial state with the same
\* input sequence record identical EntityState sequences, ticks in which a
\* marble restarts or respawns included.
C4_TwinRunsRecordTheSame ==
  \A e \in Marbles : twin.stateHistory[e] = game.stateHistory[e]

\* C5: after rollBackToFrame(target), with target different from the frame
\* before the call, no state history and no internal-state history holds an
\* entry with frame > target.
C5_NoEntryAfterTarget ==
  AfterRollBack =>
    \A e \in Marbles :
      /\ \A i \in 1..Len(game.stateHistory[e]) : game.stateHistory[e][i].frame <= lastCall.target
      /\ \A i \in 1..Len(game.internalStateHistory[e]) :
           game.internalStateHistory[e][i].frame <= lastCall.target

C5_Witness ==
  /\ AfterRollBack
  /\ lastCall.popped = Marbles
  /\ lastCall.ipopped = Marbles
  /\ \E e \in Marbles : Len(game.stateHistory[e]) > 0

StateOfUpdate(g, e, update) ==
  IF update.state = <<>> THEN GetInitialState(g.marbles[e]) ELSE update.state[1]

StrictlyIncreasingFrames(h) == \A i \in 1..Len(h) - 1 : h[i].frame < h[i + 1].frame

\* C7: in every reachable state each entity's state history has strictly
\* increasing frames in array order (so at most one update per frame).
C7_StateHistoryStrictlyIncreasing ==
  \A e \in Marbles : StrictlyIncreasingFrames(game.stateHistory[e])

\* a saveStates() that found an entry of the current frame and replaced it
C7_Witness ==
  /\ lastCall.op = "saveStates"
  /\ \E e \in Marbles :
       /\ preSave.marbles[e].stateNeedsStore
       /\ Len(preSave.stateHistory[e]) >= 2
       /\ Last(preSave.stateHistory[e]).frame = preSave.frame
       /\ Len(game.stateHistory[e]) = Len(preSave.stateHistory[e])

\* the history without its last entry when that entry is of frame f
WithoutFrame(h, f) == IF Len(h) > 0 /\ Last(h).frame = f THEN Front(h) ELSE h
EntriesOfFrame(h, f) == {i \in 1..Len(h) : h[i].frame = f}

SavedStateHistory(p, q, e) ==
  IF p.marbles[e].stateNeedsStore
    THEN /\ Len(q.stateHistory[e]) > 0
         /\ Front(q.stateHistory[e]) = WithoutFrame(p.stateHistory[e], p.frame)
         /\ Last(q.stateHistory[e]).state = <<GetState(p.marbles[e])>>
         /\ Cardinality(EntriesOfFrame(q.stateHistory[e], p.frame)) = 1
         /\ Last(q.stateHistory[e]).frame = p.frame
    ELSE q.stateHistory[e] = p.stateHistory[e]

\* C8 as stated: the internal snapshot is an entry for the current frame
SavedInternalHistoryAsStated(p, q, e) ==
  IF p.marbles[e].internalStateNeedsStore
    THEN /\ Len(q.internalStateHistory[e]) > 0
         /\ Front(q.internalStateHistory[e]) = WithoutFrame(p.internalStateHistory[e], p.frame)
         /\ Last(q.internalStateHistory[e]).state = GetInternalState(p.marbles[e])
         /\ Cardinality(EntriesOfFrame(q.internalStateHistory[e], p.frame)) = 1
         /\ Last(q.internalStateHistory[e]).frame = p.frame
    ELSE q.internalStateHistory[e] = p.internalStateHistory[e]

\* C8 as amended: the first entry of an internal-state history is tagged -1
SavedInternalHistory(p, q, e) ==
  IF p.marbles[e].internalStateNeedsStore
    THEN /\ Len(q.internalStateHistory[e]) > 0
         /\ Front(q.internalStateHistory[e]) = WithoutFrame(p.internalStateHistory[e], p.frame)
         /\ Last(q.internalStateHistory[e]).state = GetInternalState(p.marbles[e])
         /\ Last(q.internalStateHistory[e]).frame =
              IF Len(q.internalStateHistory[e]) = 1 THEN -1 ELSE p.frame
         /\ Cardinality(EntriesOfFrame(q.internalStateHistory[e], p.frame)) <= 1
    ELSE q.internalStateHistory[e] = p.internalStateHistory[e]

FlagsCleared(q) ==
  \A e \in Marbles : ~q.marbles[e].stateNeedsStore /\ ~q.marbles[e].internalStateNeedsStore

\* C8 (as stated): saveStates() records for each flagged entity exactly one
\* entry for the current frame holding its current state, replacing an entry
\* already recorded for that frame, and clears the flag; unflagged entities'
\* histories are unchanged.
C8_SaveStatesAsStated ==
  lastCall.saved =>
    /\ \A e \in Marbles :
         SavedStateHistory(preSave, game, e) /\ SavedInternalHistoryAsStated(preSave, game, e)
    /\ FlagsCleared(game)

\* C8 (amended): as C8, except that the first entry ever recorded in an
\* entity's internal-state history is tagged frame -1 (later internal entries
\* are tagged with the current frame and replace the last entry when it is
\* tagged with that frame); a saveStates() with no entity flagged changes
\* neither the histories nor nextUpdateId.
C8_SaveStates ==
  lastCall.saved =>
    /\ \A e \in Marbles :
         SavedStateHistory(preSave, game, e) /\ SavedInternalHistory(preSave, game, e)
    /\ FlagsCleared(game)
    /\ FlagsCleared(preSave) =>
         /\ game.stateHistory = preSave.stateHistory
         /\ game.internalStateHistory = preSave.internalStateHistory
         /\ game.nextUpdateId = preSave.nextUpdateId

\* a saveStates() that replaced an entity's entries of the current frame by a
\* different state and left the unflagged entity's histories alone
C8_Witness ==
  /\ lastCall.op = "saveStates"
  /\ \E e \in Marbles :
       /\ preSave.marbles[e].stateNeedsStore /\ preSave.marbles[e].internalStateNeedsStore
       /\ Len(preSave.stateHistory[e]) > 0
       /\ Last(preSave.stateHistory[e]).frame = preSave.frame
       /\ Last(preSave.internalStateHistory[e]).frame = preSave.frame
       /\ Last(game.stateHistory[e]).state # Last(preSave.stateHistory[e]).state
  /\ \E e \in Marbles :
       /\ ~preSave.marbles[e].stateNeedsStore /\ ~preSave.marbles[e].internalStateNeedsStore
       /\ Len(preSave.stateHistory[e]) > 0

FramesUpTo(h, f) == {i \in 1..Len(h) : h[i].frame <= f}

\* C9: getLastEntityUpdate(entity, upToFrame) returns the history entry with the
\* greatest frame <= upToFrame, a synthesized initial update with null state
\* when there is none, and never an update recorded at a later frame.
C9_LastEntityUpdate ==
  \A e \in Marbles, upToFrame \in Frames :
    LET h == game.stateHistory[e]
        r == GetLastEntityUpdate(game, e, upToFrame)
        below == FramesUpTo(h, upToFrame)
    IN /\ below # {} =>
            \E i \in below : r = h[i] /\ \A j \in below : h[j].frame <= h[i].frame
       /\ below = {} => r.state = <<>> /\ r.updateId = -1
       /\ r.updateId # -1 => r.frame <= upToFrame

RestartsUpTo(g, f) == {g.restartFrames[i] : i \in {j \in 1..Len(g.restartFrames) : g.restartFrames[j] <= f}}
SetMax(S) == CHOOSE x \in S : \A y \in S : y <= x

\* C10: for a restartable entity, when the update found predates the most
\* recent restart at or before upToFrame, the initial update (null state) is
\* returned pinned to that restart frame; restarts later than upToFrame play no
\* part.
C10_RestartAwareness ==
  \A e \in Marbles, upToFrame \in Frames :
    LET h == game.stateHistory[e]
        found == FindLast(h, Len(h), upToFrame)
        update == IF found = <<>> THEN CreateInitialUpdate(e) ELSE found[1]
        restarts == RestartsUpTo(game, upToFrame)
        r == GetLastEntityUpdate(game, e, upToFrame)
    IN upToFrame <= game.frame =>
         IF Restartable(e) /\ restarts # {} /\ update.frame < SetMax(restarts)
           THEN r.state = <<>> /\ r.frame = SetMax(restarts)
           ELSE r = update

\* ---------------------------------------------- C3
\* how often an effect of a frame ran
TimesRan(f, effect, frame) ==
  Cardinality({i \in DOMAIN f.ran : f.ran[i] = <<effect, frame>>})

Reported(b) ==
  { {At(b.intersections, 2 * k), At(b.intersections, 2 * k + 1)} :
      k \in 0..(Len(b.intersections) \div 2 - 1) }

\* two boxes overlap on an axis: the intervals share a point
OverlapOn(p, q, d) ==
  p.boundingBox.min[d] <= q.boundingBox.max[d] /\ q.boundingBox.min[d] <= p.boundingBox.max[d]

\* two boxes overlap on an axis with positive length
StrictOverlapOn(p, q, d) ==
  p.boundingBox.min[d] < q.boundingBox.max[d] /\ q.boundingBox.min[d] < p.boundingBox.max[d]

\* the pairs the broadphase has to consider
Filtered(objs) ==
  { p \in SUBSET (1..Len(objs)) :
      /\ Cardinality(p) = 2
      /\ \E i \in p, j \in p :
           /\ i < j
           /\ BitAnd(objs[i].collisionDetectionMask, objs[j].collisionDetectionMask) # 0
           /\ (objs[i].dynamic \/ objs[j].dynamic) }

\* brute force over all pairs, as sets of object indices
BruteForce(objs) ==
  { {i - 1 : i \in p} : p \in { q \in Filtered(objs) :
       \A i \in q, j \in q : \A d \in 1..3 : OverlapOn(objs[i], objs[j], d) } }

StrictBruteForce(objs) ==
  { {i - 1 : i \in p} : p \in { q \in Filtered(objs) :
       \A i \in q, j \in q : i # j => \A d \in 1..3 : StrictOverlapOn(objs[i], objs[j], d) } }

\* C2: for boxes inserted and then moved through any sequence of update()
\* calls, after recompute() the reported intersection set equals the brute
\* force set of filtered pairs whose boxes overlap on all three axes
C2_ReportedEqualsBruteForce ==
  (bpLog.op = "recompute" /\ ~bpLog.lateInsert) => Reported(bp) = BruteForce(objects)

\* ---------------------------------------------- C11
\* the step is a rollBackToFrame call whose target is the current frame
RollBackToCurrentFrame ==
  lastCall'.op = "rollBackToFrame" /\ lastCall'.target = game.frame

\* the game but for the record of the loadState calls
SameGame(g, h) == [h EXCEPT !.loaded = g.loaded] = g

\* C11: rollBackToFrame(target) with target equal to the current frame
\* changes nothing: not the frame, the histories, the affection graph, the
\* HUD queues, the store flags or nextUpdateId
C11_RollBackToCurrentFrameNoOp ==
  [][RollBackToCurrentFrame => SameGame(game, game')]_vars

\* rollBackToFrame was called for the current frame while an entity was
\* flagged for storing
C11_Witness ==
  /\ lastCall.op = "rollBackToFrame"
  /\ lastCall.target = lastCall.from
  /\ \E e \in Marbles : game.marbles[e].stateNeedsStore

\* ---------------------------------------------- C12
\* the edges are in non-decreasing frame order
EdgesFrameOrdered(g) ==
  \A i \in 1..Len(g.affectionGraph) : \A j \in i..Len(g.affectionGraph) :
    g.affectionGraph[i].frame <= g.affectionGraph[j].frame

\* the edges of a graph that are not later than a frame, in their order
RECURSIVE EdgesUpTo(_, _)
EdgesUpTo(graph, f) ==
  IF graph = <<>> THEN <<>>
  ELSE IF Head(graph).frame <= f THEN <<Head(graph)>> \o EdgesUpTo(Tail(graph), f)
  ELSE EdgesUpTo(Tail(graph), f)

\* the step is a rollBackToFrame call
RollBackStep == lastCall'.op = "rollBackToFrame" /\ calls' # calls

\* C12: the edges of the affection graph are always in non-decreasing frame
\* order, and rollBackToFrame(target) removes the edges with frame > target
\* and keeps every other edge
C12_EdgesOrderedAndTrimmed ==
  /\ []EdgesFrameOrdered(game)
  /\ [][RollBackStep =>
         game'.affectionGraph = EdgesUpTo(game.affectionGraph, lastCall'.target)]_vars

\* a rollback removed an edge and kept one
C12_Witness ==
  /\ AfterRollBack
  /\ game.affectionGraph # <<>>
  /\ Last(game.affectionGraph).frame = lastCall.target
  /\ game.nextAffectionEdgeId > Len(game.affectionGraph)
  /\ calls = 1

\* ---------------------------------------------- C13
\* no entry of a queue is later than a frame
NoneAfter(queue, f) == \A i \in 1..Len(queue) : queue[i].frame <= f

\* C13: after rollBackToFrame(target) neither the help-message queue nor the
\* alert queue of the HUD holds an entry with frame > target
C13_QueuesTrimmed ==
  AfterRollBack =>
    /\ NoneAfter(game.hud.helpMessages, lastCall.target)
    /\ NoneAfter(game.hud.alerts, lastCall.target)

\* ---------------------------------------------- C14
\* the internal-state history of an entity: the first entry is tagged -1 and
\* the frames increase strictly
InternalHistoryShape(h) ==
  /\ h # <<>> => h[1].frame = -1
  /\ \A i \in 1..Len(h) : \A j \in (i + 1)..Len(h) : h[i].frame < h[j].frame

\* every entry behind the first either was there before the step or carries
\* the frame of the game after the step
InternalHistoryStep(h, hNext, f) ==
  \A i \in 2..Len(hNext) : (i <= Len(h) /\ h[i] = hNext[i]) \/ hNext[i].frame = f

\* C14: the first entry of each entity's internal-state history is tagged -1,
\* every later entry is tagged with the frame at which it was saved, the
\* frames increase strictly and so no frame has two entries
C14_InternalHistoryTagged ==
  /\ [](\A e \in Marbles : InternalHistoryShape(game.internalStateHistory[e]))
  /\ [][\A e \in Marbles :
          InternalHistoryStep(game.internalStateHistory[e],
                              game'.internalStateHistory[e], game'.frame)]_vars

\* an internal-state history with three entries, after a rollback has cut it
C14_Witness ==
  \E e \in Marbles :
    /\ Len(game.internalStateHistory[e]) >= 3
    /\ calls >= 1
    /\ lastCall.op = "saveStates"

\* ---------------------------------------------- C15
\* the flag value of the pair of the objects with indices i < j
PairFlags(b, i, j) == ReadFlags(b.flags, FlagIndex(b.objectCount, j, i))

\* the pairs of inserted objects, as <<i, j>> with i < j
ObjectPairs(b) ==
  {p \in (0..(b.objectCount - 1)) \X (0..(b.objectCount - 1)) : p[1] < p[2]}

\* C15: after any sequence of insert, update and recompute a pair is in the
\* reported intersection list exactly when all three bits of its flags are set
C15_ReportedIffAllBits ==
  \A p \in ObjectPairs(bp) :
    ({p[1], p[2]} \in Reported(bp)) <=> (PairFlags(bp, p[1], p[2]) = 7)

\* ---------------------------------------------- C16
\* the step inserts an object after pair flags have been set
LateInsertStep == Len(objects') > Len(objects) /\ bp.anyFlagSet

\* C16: an insert after pair flags have been set grows the flag array to
\* objectCount * (objectCount - 1) / 2 entries and every pair of objects
\* inserted before keeps its flag value
C16_InsertCarriesFlags ==
  [][LateInsertStep =>
       /\ Len(bp'.flags) = (bp'.objectCount * (bp'.objectCount - 1)) \div 2
       /\ \A p \in ObjectPairs(bp) :
            PairFlags(bp', p[1], p[2]) = PairFlags(bp, p[1], p[2])]_vars

\* ------------------------------------------------------------------ C17
\* a step in which update() is called for an object that has no proxies
UpdateOfUnknownStep ==
  bpLog'.op = "update" /\ bpLog'.fresh /\ bpLog'.ops # bpLog.ops

\* the proxies of one object in one axis list
ProxiesOf(b, objectIndex, dim) ==
  {i \in 1..Len(b.lists[dim + 1]) : b.lists[dim + 1][i].objectIndex = objectIndex}

\* C17: update(object) for an object that was never inserted leaves the
\* broadphase exactly as insert(object) does: the object has a min and a max
\* proxy in each of the three axis lists (6 proxies), a sort is pending, and
\* hence every later recompute() reports its overlaps as after an insert.
C17_UpdateOfUnknownInserts ==
  [][UpdateOfUnknownStep =>
       /\ bp' = Insert(bp, Last(objects'))
       /\ bp'.objectCount = bp.objectCount + 1
       /\ bp'.needsSort
       /\ \A dim \in Dims :
            /\ Cardinality(ProxiesOf(bp', bp.objectCount, dim)) = 2
            /\ \E i, j \in ProxiesOf(bp', bp.objectCount, dim) :
                 bp'.lists[dim + 1][i].min /\ ~bp'.lists[dim + 1][j].min]_vars

\* an object came in through update() and the next recompute() reports an
\* overlap of it with an object inserted before
C17_Witness ==
  /\ bpLog.op = "update" /\ bpLog.fresh
  /\ bp.objectCount >= 2
  /\ \E o \in 0..(bp.objectCount - 2) :
       {bp.objectCount - 1, o} \in Reported(Recompute(bp))

\* ------------------------------------------------------------------ C18
\* the reported pairs in list order, first and second object of each
ReportedPairs(b) ==
  [k \in 1..(Len(b.intersections) \div 2) |->
     <<At(b.intersections, 2 * (k - 1)), At(b.intersections, 2 * (k - 1) + 1)>>]

\* C18: the intersection list holds no object paired with itself, no pair of
\* two non-dynamic objects, no pair whose masks share no bit and no unordered
\* pair twice, and every pair has the object of larger insertion index first.
C18_ReportedPairsWellFormed ==
  LET pairs == ReportedPairs(bp)
  IN /\ \A k \in DOMAIN pairs :
          LET a == objects[pairs[k][1] + 1]
              b == objects[pairs[k][2] + 1]
          IN /\ pairs[k][1] # pairs[k][2]
             /\ a.dynamic \/ b.dynamic
             /\ BitAnd(a.collisionDetectionMask, b.collisionDetectionMask) # 0
             /\ pairs[k][1] > pairs[k][2]
     /\ \A k, l \in DOMAIN pairs :
          k # l => {pairs[k][1], pairs[k][2]} # {pairs[l][1], pairs[l][2]}

\* ------------------------------------------------------------------ C19
\* a step of insert() or update()
InsertOrUpdateStep ==
  bpLog'.ops # bpLog.ops /\ bpLog'.op \in {"insert", "update"}

\* a step of recompute() that follows a recompute() directly
RepeatedRecomputeStep ==
  bpLog'.ops # bpLog.ops /\ bpLog'.op = "recompute" /\ bpLog.op = "recompute"

\* C19: insert() and update() leave the intersection list unchanged, and a
\* recompute() with no insert() or update() since the previous recompute()
\* leaves the axis lists, the flags and the intersection list unchanged.
C19_ListChangesOnlyInRecompute ==
  [][/\ InsertOrUpdateStep => bp'.intersections = bp.intersections
     /\ RepeatedRecomputeStep =>
          /\ bp'.lists = bp.lists
          /\ bp'.flags = bp.flags
          /\ bp'.intersections = bp.intersections]_vars

\* an update() has moved an object out of a reported pair and the pair is
\* still listed, the sort being pending
C19_Witness ==
  /\ bpLog.op = "update" /\ ~bpLog.fresh
  /\ bp.needsSort
  /\ \E p \in Reported(bp) : p \notin BruteForce(objects)
  /\ Reported(Recompute(bp)) # Reported(bp)

\* ------------------------------------------------------------------ C20
\* the three kinds of step of a reconciliation
SnapshotRollBackStep == recon.phase = "idle" /\ recon'.phase = "loading"
SnapshotLoadStep == recon.phase = "loading" /\ recon'.phase # "loading"
SnapshotReplayStep == recon.phase = "replaying" /\ game'.frame # game.frame

\* C20: on a server snapshot for a frame F <= frame the client rolls back to
\* F, loads the server-provided state as remote, which marks the internal
\* state for storing, and re-advances one tick at a time with the buffered
\* control states until frame has its value from before the snapshot; the
\* reconciliation always gets there and never ends with frame below it.
C20_Reconciliation ==
  /\ [][SnapshotRollBackStep =>
          /\ recon'.target <= game.frame
          /\ game'.frame = recon'.target
          /\ recon'.until = game.frame]_vars
  /\ [][SnapshotLoadStep =>
          /\ game'.frame = game.frame
          /\ \E e \in Marbles :
               /\ game'.loaded[e] # <<>>
               /\ game'.loaded[e][1].remote
               /\ game'.marbles[e].pos = game'.loaded[e][1].state.pos
               /\ game'.marbles[e].internalStateNeedsStore]_vars
  /\ [][SnapshotReplayStep =>
          /\ game'.frame = game.frame + 1
          /\ game'.frame <= recon.until
          /\ \E rnd \in AuxRandomPositions :
               game' = Tick(game, controlStates[game.frame + 1][1], rnd)]_vars
  /\ [][(recon.phase # "idle" /\ recon'.phase = "idle") =>
          game'.frame = recon.until]_vars
  /\ [](recon.phase # "idle" => game.frame <= recon.until)
  /\ (recon.phase # "idle") ~> (recon.phase = "idle" /\ game.frame = recon.until)

\* a reconciliation that rolled back below the frame has replayed its way
\* back to it
C20_Witness ==
  /\ recon.phase = "idle"
  /\ recon.target # NoFrame /\ recon.target < recon.until
  /\ game.frame = recon.until
  /\ lastCall.op = "tick"
  /\ calls >= 1

\* ------------------------------------------------------------------ C21
\* the graph has a cycle, a self edge included
Cyclic(graph) ==
  \E i, j \in 1..Len(graph) : graph[i].from = graph[j].to /\ graph[i].to = graph[j].from

\* C21: recordEntityInteraction(e1, e2) terminates for every affection graph,
\* cyclic ones and e1 = e2 included: a propagate call goes on along the edges
\* only when it added a player, so the calls that go on are at most the
\* (entity, player) additions, which are at most entities times players, and
\* every call begun comes to its end.
C21_PropagationTerminates ==
  /\ [](flood.recursing <= flood.additions)
  /\ [](flood.additions <= Cardinality(FloodEntities) * Cardinality(FloodPlayers))
  /\ [](flood.calls <= 1 + flood.recursing * Len(flood.affectionGraph))
  /\ [](Len(flood.stack) < MaxCallDepth)
  /\ (flood.stack # <<>>) ~> (flood.stack = <<>>)

\* a call has ended after it walked round a cycle of the graph
C21_Witness ==
  /\ flood.stack = <<>>
  /\ Cyclic(flood.affectionGraph)
  /\ flood.additions >= 1
  /\ flood.calls >= 2

\* ------------------------------------------------------------------ C27
\* the entities reachable from e along the edges of the graph, e included
RECURSIVE ReachableFrom(_, _)
ReachableFrom(graph, es) ==
  LET more == es \cup {graph[i].to : i \in {k \in 1..Len(graph) : graph[k].from \in es}}
  IN IF more = es THEN es ELSE ReachableFrom(graph, more)

\* C27: after any sequence of recordEntityInteraction calls every edge of the
\* affection graph has from.affectedBy within to.affectedBy, and after
\* recordEntityInteraction(e1, e2) every entity reachable from e2 holds all
\* players of e1.affectedBy.
C27_EdgesCarryPlayers ==
  (flood.stack = <<>>) =>
    /\ \A i \in 1..Len(flood.affectionGraph) :
         flood.affectedBy[flood.affectionGraph[i].from]
           \subseteq flood.affectedBy[flood.affectionGraph[i].to]
    /\ flood.affectionGraph # <<>> =>
         \A e \in ReachableFrom(flood.affectionGraph, {Last(flood.affectionGraph).to}) :
           flood.affectedBy[flood.e1] \subseteq flood.affectedBy[e]
    /\ flood.affectedBy = flood.expected

\* a call has passed a player on over an edge recorded before
C27_Witness ==
  /\ flood.stack = <<>>
  /\ Len(flood.affectionGraph) >= 2
  /\ flood.recursing >= 1
  /\ flood.additions >= 2

\* ------------------------------------------------------------------ C28
\* the greatest restart frame not later than f, -Infinity when there is none
GreatestRestartUpTo(rf, f) ==
  LET upTo == {rf[i] : i \in {k \in 1..Len(rf) : rf[k] <= f}}
  IN IF upTo = {} THEN NegInf ELSE CHOOSE r \in upTo : \A q \in upTo : q <= r

\* C28: restartFrames is strictly increasing in every reachable state, also
\* after a rollback to a frame before a scheduled restart and the ticks that
\* follow it, and lastRestartFrame is the greatest restart frame <= frame, or
\* -Infinity when there is none.
C28_RestartFramesIncreasing ==
  /\ \A i \in 1..(Len(game.restartFrames) - 1) :
       game.restartFrames[i] < game.restartFrames[i + 1]
  /\ LastRestartFrame(game) = GreatestRestartUpTo(game.restartFrames, game.frame)

\* ------------------------------------------------------------------ C29
\* C29: rollBackToFrame only moves frame backward: after any call
\* rollBackToFrame(target) frame is at most what it was before the call, and
\* a step that is no rollback never decreases frame.
C29_FrameBackwardOnlyByRollBack ==
  [][IF RollBackStep THEN game'.frame <= game.frame
                     ELSE game'.frame >= game.frame]_vars

\* ------------------------------------------------------------------ C30
\* a recompute() that has a sort to do
SortingStep ==
  bpLog'.op = "recompute" /\ bpLog'.ops # bpLog.ops /\ bp.needsSort

\* the dirty window of an axis, as list positions from 0
DirtyWindow(b, d) == b.sortStarts[d]..b.sortEnds[d]

\* an axis list is in order
InOrder(list) == \A i \in 1..(Len(list) - 1) : list[i].value <= list[i + 1].value

\* C30: sort(axis) runs its insertion-sort pass only over the dirty window
\* accumulated since the last sort, so the proxies at positions outside the
\* window stay where they are, and the pass leaves the whole axis list in
\* order, also when a box's max moved past the last proxy of the list.
C30_SortKeepsToDirtyWindow ==
  [][SortingStep =>
       \A d \in 1..3 :
         /\ \A i \in 1..Len(bp.lists[d]) :
              (i - 1) \notin DirtyWindow(bp, d) => bp'.lists[d][i] = bp.lists[d][i]
         /\ InOrder(bp'.lists[d])]_vars

\* ------------------------------------------------------------------ C23
\* max(2 * frameGap, 20)
InterpolationWindow(frameGap) == IF 2 * frameGap > 20 THEN 2 * frameGap ELSE 20

\* C23: a reconciliation that moved the marble starts an interpolation over
\* max(2 * frameGap, 20) frames, a window that does not shrink when frameGap
\* grows, and leaves the rendered position where it is; with equal positions
\* none is started, and a running interpolation with more frames left than
\* the new window is left untouched. While frames are left postUpdate()
\* moves the rendered position towards the marble's, one frame each, and
\* snaps only after the window has been used up.
C23_InterpolationWindow ==
  /\ [][(interp'.started # interp.started) =>
          /\ interp'.window = InterpolationWindow(interp'.frameGap)
          /\ interp'.interpolationRemaining = interp'.window
          /\ interp'.position # interp.position
          /\ interp.interpolationRemaining <= interp'.window
          /\ interp'.interpolatedPosition = interp.interpolatedPosition]_vars
  /\ [][(interp'.frameGap # interp.frameGap \/ interp'.position # interp.position) =>
          IF interp.interpolationRemaining > InterpolationWindow(interp'.frameGap)
               \/ interp'.position = interp.position
            THEN /\ interp'.interpolationRemaining = interp.interpolationRemaining
                 /\ interp'.interpolationStrength = interp.interpolationStrength
            ELSE interp'.interpolationRemaining = InterpolationWindow(interp'.frameGap)]_vars
  /\ [](\A g1, g2 \in 0..MaxFrameGap :
          g1 <= g2 => InterpolationWindow(g1) <= InterpolationWindow(g2))
  /\ [](interp.window > 0 =>
          /\ interp.lerped + interp.interpolationRemaining = interp.window
          /\ interp.interpolationRemaining >= 0)
  /\ [](interp.interpolationRemaining < 0 => interp.interpolatedPosition = interp.position)

\* an interpolation over more than 20 frames has run half its window and
\* the rendered position is still on its way
C23_Witness ==
  /\ interp.window > MinInterpolationFrames
  /\ interp.lerped * 2 >= interp.window
  /\ interp.interpolationRemaining > 0
  /\ interp.interpolatedPosition # interp.position

\* ------------------------------------------------------------------ C22
ClaimedOrder ==
  <<"beforeIntegrate", "integrate", "afterIntegrate", "detect",
    "beforeCollisionResponse", "resolve", "afterCollisionResponse">>

\* what the last tick did with body b: the hooks invoked on it and the
\* simulator's own steps, in the order they were taken
StepsSeenBy(b) ==
  LET Seen(x) == x.body \in {b, 0}
  IN SelectSeq(world.hooks, Seen)

\* C22: in every tick and for every body the simulator takes beforeIntegrate,
\* integration, afterIntegrate, collision detection, beforeCollisionResponse,
\* collision resolution and afterCollisionResponse in this order, each once.
C22_HookOrder ==
  world.op = "tick" =>
    \A b \in world.present :
      /\ Len(StepsSeenBy(b)) = Len(ClaimedOrder)
      /\ \A i \in 1..Len(ClaimedOrder) : StepsSeenBy(b)[i].step = ClaimedOrder[i]

\* a tick in which a marble entered the trigger
C22_Witness ==
  /\ world.op = "tick"
  /\ Len(world.hooks) = 4 * Cardinality(WorldEntities) + 3
  /\ \E ev \in world.fired : ev.frame = world.frame /\ ev.kind = "enter"

\* ------------------------------------------------------------------ C24
\* C24: rollBackToFrame completes without raising when a history holds the id
\* of an entity that getEntityById no longer finds.
C24_StaleIdIsAbsent == ~world.raised

\* ------------------------------------------------------------------ C25
LiveObjects == {world.currentlyColliding} \cup {world.marbleCollisions[m] : m \in WorldMarbles}

C26_InternalStateOfTarget ==
  /\ world.op = "rollback" =>
       world.heap[world.currentlyColliding] = world.firstInternal[world.frame]
  /\ {ev \in world.fired : ev.kind # "inside"}
       = {ev \in world.first : ev.frame <= world.frame /\ ev.kind # "inside"}

\* ------------------------------------------------------------------ C40
\* C40: after every insert, update and recompute each proxy of an axis list
\* holds the index of its place in the list, and the list holds one min and
\* one max proxy for each inserted object, 2 * objectCount proxies in all.
C40_ProxiesKnowTheirIndex ==
  \A d \in 1..3 :
    /\ Len(bp.lists[d]) = 2 * bp.objectCount
    /\ \A i \in 1..Len(bp.lists[d]) : bp.lists[d][i].index = i - 1
    /\ \A o \in 0..(bp.objectCount - 1), min \in BOOLEAN :
         Cardinality({i \in 1..Len(bp.lists[d]) :
                        bp.lists[d][i].objectIndex = o /\ bp.lists[d][i].min = min}) = 1

\* a recompute() has moved a proxy away from the place insert() gave it
C40_Witness ==
  /\ bpLog.op = "recompute"
  /\ bp.objectCount >= 2
  /\ \E d \in 1..3 : \E i \in 1..Len(bp.lists[d]) :
       2 * bp.lists[d][i].objectIndex + (IF bp.lists[d][i].min THEN 0 ELSE 1) # i - 1

\* ------------------------------------------------------------------ C31
\* the broadphase of the history that inserts the objects as they are now,
\* one after the other, and then recomputes
RECURSIVE InsertedAfresh(_, _)
InsertedAfresh(objs, n) ==
  IF n = 0 THEN InitBroadphase ELSE Insert(InsertedAfresh(objs, n - 1), objs[n])

ReportedAfresh(objs) == Reported(Recompute(InsertedAfresh(objs, Len(objs))))

\* C31: after recompute() the reported set is that of any other history
\* ending with the same boxes, masks and dynamic flags, in particular of the
\* history that inserts the objects with these boxes and recomputes once;
\* boxes that touch on an axis are no exception.
C31_ReportedDependsOnBoxesOnly ==
  bpLog.op = "recompute" => Reported(bp) = ReportedAfresh(objects)

\* ------------------------------------------------------------------ C33
\* the collisions of the tick between the main shapes of two marbles
MarbleMarbleCollisions ==
  {i \in 1..Len(contact.collisions) :
     contact.collisions[i].s1.kind = "main" /\ contact.collisions[i].s2.kind = "main"}

\* C33: a collision between two marbles is handed to onMarbleMarbleCollision
\* by exactly one marble in the tick, whatever other collisions there are.
C33_ProcessedByOneMarble ==
  contact.responded =>
  \A i \in MarbleMarbleCollisions :
    Cardinality({m \in ContactMarbles : i \in contact.processed[m]}) = 1

\* ------------------------------------------------------------------ C34
\* the collisions of the tick that involve the main shape of marble m
OfMainShape(m) ==
  {i \in 1..Len(contact.collisions) :
     MainShape(m) \in {contact.collisions[i].s1, contact.collisions[i].s2}}

\* C34: findBestCollision(score) returns null exactly when no collision
\* involves the marble's main shape, and otherwise the first collision in the
\* order of body.collisions among those of the main shape with the greatest
\* score; a collision of an aux shape only is never returned.
C34_BestCollision ==
  contact.responded =>
  \A m \in ContactMarbles, which \in ScoreNames :
    LET best == contact.best[m][which].collision
        ScoreOf(i) == Score(which, contact.collisions[i], m)
    IN /\ (best = 0) <=> (OfMainShape(m) = {})
       /\ best # 0 =>
            /\ best \in OfMainShape(m)
            /\ \A i \in OfMainShape(m) : ScoreOf(i) <= ScoreOf(best)
            /\ \A i \in OfMainShape(m) : ScoreOf(i) = ScoreOf(best) => best <= i

\* a marble with two collisions of its main shape that score the same, the
\* first of them returned
C34_Witness ==
  /\ contact.responded
  /\ \E m \in ContactMarbles :
       /\ Cardinality(OfMainShape(m)) = 2
       /\ contact.best[m]["up"].collision = 1
       /\ Score("up", contact.collisions[1], m) = Score("up", contact.collisions[2], m)

\* ------------------------------------------------------------------ C32
Fired(kind, f, m) == [frame |-> f, kind |-> kind, marble |-> m] \in world.fired

\* the calls of `kind` for marble m up to frame f
FiredUpTo(kind, f, m) ==
  Cardinality({ev \in world.fired : ev.kind = kind /\ ev.marble = m /\ ev.frame <= f})

\* C32: without reset() and rollback, onMarbleEnter fires for a body in the
\* first tick it is in the trigger's collisions, onMarbleInside in the
\* ticks it is in them, onMarbleLeave in the tick after the first one it is
\* no longer in them; so the calls of onMarbleEnter and onMarbleLeave
\* alternate, onMarbleEnter coming first.
C32_EnterAndLeaveAlternate ==
  ~world.rolledBack =>
    \A m \in WorldMarbles : \A f \in 0..world.frame :
      /\ Fired("inside", f, m) <=> m \in world.overlap[f]
      /\ Fired("enter", f, m) <=> (m \in world.overlap[f] /\ m \notin world.overlap[f - 1])
      /\ Fired("leave", f, m) <=>
           (f >= 2 /\ m \notin world.overlap[f - 1] /\ m \in world.overlap[f - 2])
      /\ FiredUpTo("enter", f, m) - FiredUpTo("leave", f, m) \in {0, 1}
      /\ Fired("leave", f, m) => FiredUpTo("enter", f - 1, m) = FiredUpTo("leave", f, m)
      /\ Fired("enter", f, m) => FiredUpTo("enter", f, m) = FiredUpTo("leave", f, m) + 1

\* the marble has entered, left and entered again
C32_Witness ==
  /\ ~world.rolledBack
  /\ \E m \in WorldMarbles :
       /\ FiredUpTo("enter", world.frame, m) = 2
       /\ FiredUpTo("leave", world.frame, m) = 1

\* ------------------------------------------------------------------ C35
\* a queue holds, in the order of their frames, one entry for each frame that
\* has a latest call, with the message of that call
QueueOfLatest(queue, latest) ==
  /\ \A i \in 1..(Len(queue) - 1) : queue[i].frame < queue[i + 1].frame
  /\ \A i \in 1..Len(queue) : queue[i].getMessage = latest[queue[i].frame]
  /\ \A f \in HudFrames : latest[f] # 0 => \E i \in 1..Len(queue) : queue[i].frame = f

RestartsInTick == InSeq(solo.frame + 1, solo.restartFrames)

\* the marble is out of bounds when the update() of the tick begins, and the
\* player holds 'use' or 2 * GAME_UPDATE_RATE frames have passed
DueInTick ==
  /\ solo.addedToGame
  /\ solo.outOfBoundsFrame # NoFrame
  /\ ~RestartsInTick
  /\ solo'.using \/ solo'.frame - solo.outOfBoundsFrame >= 2 * GAME_UPDATE_RATE
  /\ ~solo.finishedLegal

\* what the claim expects of a tick and of a call of goOutOfBounds
RespawnStep ==
  /\ solo'.op = "tick" =>
        /\ solo'.respawned # "none" <=> DueInTick
        /\ solo'.respawned = "restart" =>
              /\ game.type = "singleplayer" /\ ~solo.currentCheckpoint
              /\ solo'.restartFrames = Append(solo.restartFrames, solo'.frame + 1)
              /\ solo'.outOfBoundsFrame = solo.outOfBoundsFrame
        /\ solo'.respawned = "respawn" =>
              /\ game.type = "multiplayer" \/ solo.currentCheckpoint
              /\ solo'.outOfBoundsFrame = NoFrame
        /\ solo'.respawned = "none" /\ ~RestartsInTick =>
              solo'.outOfBoundsFrame = solo.outOfBoundsFrame
  /\ solo'.op = "goOutOfBounds" /\ (solo.outOfBoundsFrame # NoFrame \/ solo.inFinishState) =>
        [solo' EXCEPT !.op = solo.op] = solo

\* C36: every tick in which an out-of-bounds marble's player holds 'use' or
\* 2 * GAME_UPDATE_RATE frames have passed since outOfBoundsFrame respawns
\* the marble (schedules a restart for frame + 1 for the local marble of a
\* singleplayer game without a checkpoint) unless the game has legally
\* finished; no other tick does; goOutOfBounds changes nothing on a marble
\* that is out of bounds or in the finish state.
C36_RespawnWhenDue == [][RespawnStep]_vars

\* a marble whose player never held 'use' was respawned 2 * GAME_UPDATE_RATE
\* frames after it went out of bounds
C36_Witness ==
  /\ solo.op = "tick"
  /\ ~solo.using
  /\ solo.respawned = "respawn"
  /\ solo.frame = 2 * GAME_UPDATE_RATE

\* ------------------------------------------------------------------ C37
\* the tick that leads to the next state cancels a pending teleport
CancelsInTick ==
  \E i \in 1..Len(solo.teleportStates) :
    LET t == solo.teleportStates[i]
    IN /\ t.entryFrame # NoFrame
       /\ solo'.frame - t.entryFrame < TeleportDelay
       /\ t.exitFrame # NoFrame
       /\ (solo'.frame - t.exitFrame) * 20 > GAME_UPDATE_RATE

\* the blast meter is recharged, endPadColliderTimeout is decremented and
\* no empty teleport state is left
TailStep ==
  solo'.op = "tick" /\ solo.addedToGame =>
    /\ solo'.blastAmount = Min(solo.blastAmount + 1, BlastFull)
    /\ solo'.endPadColliderTimeout = Max(solo.endPadColliderTimeout - 1, 0)
    /\ \A i \in 1..Len(solo'.teleportStates) :
         solo'.teleportStates[i].entryFrame # NoFrame \/ solo'.teleportStates[i].exitFrame # NoFrame

\* C37: every tick in which update() runs for a marble added to the game
\* recharges the blast meter, decrements endPadColliderTimeout and prunes
\* the empty teleport states, also when it cancels or executes a teleport.
C37_TailAlwaysRuns == [][TailStep]_vars

\* the same for the ticks that cancel no teleport
TailRunsWithoutCancel == [][CancelsInTick \/ TailStep]_vars

\* ------------------------------------------------------------------ C38
\* the looping sounds, the finish camera and the interpolation of the marble
Presentation(m) ==
  <<m.helicopterSound, m.shockAbsorberSound, m.superBounceSound, m.rolling,
    m.finishCameraAnimationStart, m.interpolationRemaining, m.interpolatedPosition>>

\* a replayed tick leaves the presentation as it is
ReplayedStep ==
  solo'.op = "tick" /\ solo'.reconciling => Presentation(solo') = Presentation(solo)

\* C38: while simulator.isReconciling is true, update() and postUpdate()
\* leave the looping sound sources, finishCameraAnimationStart,
\* interpolatedPosition, interpolatedOrientation and interpolationRemaining
\* as they are.
C38_ReplayLeavesPresentation == [][ReplayedStep]_vars

\* the same for the replayed ticks that do not respawn the marble
ReplayWithoutRespawn == [][solo'.respawned = "respawn" \/ ReplayedStep]_vars

\* ------------------------------------------------------------------ C39
\* no two game buttons are bound to the same non-empty value
NoDuplicateBindings(mapping) ==
  \A a, b \in GameButtons : a # b /\ mapping[a] # "" => mapping[a] # mapping[b]

\* what the claim expects of an event
RebindStep ==
  /\ NoDuplicateBindings(options'.gameButtonMapping)
  /\ options'.op = "keydown" /\ options'.code = "Escape" =>
        options'.gameButtonMapping = options.gameButtonMapping
  /\ options'.op = "no" => options'.gameButtonMapping = options.gameButtonMapping
  /\ options'.op \in {"keydown", "mousedown"} /\ ~options.rebindConfirmHidden =>
        [options' EXCEPT !.op = options.op, !.code = options.code] = options

\* C39: no two game buttons are ever bound to the same non-empty value;
\* Escape during rebinding and No in the conflict dialog leave the mapping
\* as it is; key and mouse events change nothing while the conflict dialog
\* is open.
C39_RebindingKeepsMappingSound == [][RebindStep]_vars

\* the same when no key event carries the empty code
RebindWithoutEmptyCode == [][options'.code = "" \/ options.rebindValue = "" \/ RebindStep]_vars
====
